---- MODULE Spec2Model ----
(***************************************************************************)
(* A model of DictORM's core engine (src/dictorm/dictorm.py) and of the    *)
(* statement builder it drives (src/dictorm/pg.py).                        *)
(*                                                                         *)
(* The database is a schema of two tables, as in the test suite's setUp:   *)
(*   person(id SERIAL PRIMARY KEY, manager_id INTEGER)                     *)
(*   no_pk(foo)                                                            *)
(* Queries are also built, never run, for the table with two primary keys, *)
(*   person_department(person_id, department_id),                          *)
(* and statements are built and rendered as text without a database.       *)
(* Column values are integers; None (SQL NULL) is 0.  A value below 0 is a *)
(* handle of a Dict object: -i is the i-th object of the heap "dicts".     *)
(***************************************************************************)
EXTENDS Integers, Sequences, FiniteSets, TLC

VARIABLES
    rows,     \* table name -> sequence of rows, in physical (insertion) order
    nextid,   \* next value of person.id's SERIAL sequence
    refs,     \* Table.refs: table name -> (reference name -> Comparison handle)
    fks,      \* Table.fks:  table name -> (column name -> reference name)
    comps,    \* heap of Comparison objects (references are stored by identity)
    dicts,    \* heap of Dict objects
    queries,  \* heap of Select objects
    opers,    \* heap of Operator (And) objects
    rgs,      \* heap of ResultsGenerator objects
    dbcurs,   \* DictDB.curs, the connection's shared cursor: rows yet to fetch
    db,       \* the DictDB registry, the Table objects made, the database's tables
    last      \* what the last operation did: its outcome and statement log

vars == <<rows, nextid, refs, fks, comps, dicts, queries, opers, rgs, dbcurs, db, last>>

----------------------------------------------------------------------------
(* Bounds *)

MaxId == 2        \* explicit ids are 1..MaxId
MaxInit == 2      \* rows of a table when the engine is constructed
MaxDicts == 1     \* Dict objects on the heap
MaxComps == 2     \* Comparison objects declared as references
MaxRefDicts == 2  \* Dict objects on the heap where references are resolved
MaxRgs == 2       \* ResultsGenerator objects on the heap
MaxRows == 2      \* rows of person where ResultsGenerators are exercised
MaxLimit == 1     \* LIMIT and OFFSET values are 0..MaxLimit
MaxGens == 1      \* ResultsGenerator objects where Dicts are flushed meanwhile
MaxTables == 4    \* Table objects constructed
MaxTx == 12       \* commits and rollbacks of the connection
MaxArgs == 2      \* positional arguments of one get_where or refine
MaxKids == 2      \* children of one Operator
MaxPeople == 2    \* rows of person where aggregate references are read
MaxDepth == 3     \* references nested through substratum names
MaxTasks == 2     \* Dicts whose flush coroutines run together
MaxCalls == 3     \* flush() calls made on them in all
MaxSchema == 3    \* tables of a schema whose foreign keys are followed

----------------------------------------------------------------------------
(* Values *)

None == 0

Ids == 1 .. MaxId

IsDict(v) == v < 0

Tables == {"person", "no_pk"}

\* Table.column_names: the columns the schema introspection returns
PersonColumns == {"id", "manager_id"}

NoPkColumns == {"foo"}

\* The table with a two-column primary key
JoinTable == "person_department"

JoinColumns == {"person_id", "department_id"}

column_names(t) ==
    IF t = "person" THEN PersonColumns
    ELSE IF t = JoinTable THEN JoinColumns
    ELSE NoPkColumns

\* Table.pks, as introspected by _refresh_pks
PersonPks == <<"id">>

JoinPks == <<"person_id", "department_id">>

pks(t) ==
    IF t = "person" THEN PersonPks
    ELSE IF t = JoinTable THEN JoinPks
    ELSE << >>

PkSet(t) == {pks(t)[i] : i \in DOMAIN pks(t)}

RefNames == {"manager", "boss"}

\* A key that is neither a column of any table above nor a reference name
ExtraKey == "extra"

EmptyMap == [k \in {} |-> None]

Merge(f, g) == [k \in (DOMAIN f) \cup (DOMAIN g) |-> IF k \in DOMAIN g THEN g[k] ELSE f[k]]

Restrict(f, S) == [k \in (DOMAIN f) \cap S |-> f[k]]

\* dict.get(key): None when the key is absent
DGet(f, k) == IF k \in DOMAIN f THEN f[k] ELSE None

\* A fixed enumeration of a finite set of strings or integers
RECURSIVE SetToSeq(_)
SetToSeq(S) == IF S = {} THEN << >>
               ELSE LET x == CHOOSE y \in S : TRUE IN <<x>> \o SetToSeq(S \ {x})

----------------------------------------------------------------------------
(* pg.py: Column, Comparison, Operator *)

\* Column(table, column)
Column(t, c) == [table |-> t, column |-> c]

\* Column.__eq__ with a literal on the right: Comparison(column, value, '=')
Eq(c, v) == [column |-> c, value |-> v]

\* An And object: a tuple of comparisons.  isnone marks Python's None in a
\* place that holds "None or an Operator".
NoOperator == [isnone |-> TRUE, comps |-> << >>]

And(cs) == [isnone |-> FALSE, comps |-> cs]

\* Truthiness of "None or an Operator": Operator defines neither __bool__ nor
\* __len__, so every Operator object is truthy, the empty And() included.
Truthy(ooc) == ~ooc.isnone

\* Operator.__str__: the children joined by the kind; "" for no children.
\* Only emptiness of the text matters to the backend's parser.
OperatorStrEmpty(ooc) == ooc.comps = << >>

----------------------------------------------------------------------------
(* The backend: what executing a built statement does to the tables *)

\* A world is the part of the state an engine call reads and writes, threaded
\* through the call: the tables, the SERIAL sequence, the Dict heap, the log of
\* statements sent, the exception raised ("" for none), the rows a statement
\* returned (ret), the value a call returned (val) and the query of the
\* ResultsGenerator it returned, if it returned one (gen).
World(r, n, d) ==
    [rows |-> r, nextid |-> n, dicts |-> d, log |-> << >>, raised |-> "",
     ret |-> << >>, val |-> None, gen |-> << >>]

Raise(w, e) == [w EXCEPT !.raised = e, !.ret = << >>, !.val = None]

Stmt(kind, t) == [kind |-> kind, table |-> t]

Sent(w, s) == [w EXCEPT !.log = Append(@, s)]

\* A row satisfies "col"=%s AND ... ; "col" = NULL is never true in SQL
Matches(r, cs) ==
    \A i \in DOMAIN cs :
        /\ cs[i].column.column \in DOMAIN r
        /\ cs[i].value # None
        /\ r[cs[i].column.column] = cs[i].value

\* The statement names a column the table does not have
UndefinedColumn(t, cs) ==
    \E i \in DOMAIN cs : cs[i].column.column \notin column_names(t)

\* Two rows of the sequence share their primary key, or a primary key is NULL
PkViolation(t, rs) ==
    /\ pks(t) # << >>
    /\ \/ \E i \in DOMAIN rs : \E k \in PkSet(t) : rs[i][k] = None
       \/ \E i, j \in DOMAIN rs :
            i # j /\ \A k \in PkSet(t) : rs[i][k] = rs[j][k]

\* The rows of a set of person rows with distinct ids, by id ascending
SortAsc(S) ==
    IF S = {} THEN << >>
    ELSE CHOOSE s \in [1 .. Cardinality(S) -> S] :
            \A i, j \in 1 .. Cardinality(S) : i < j => s[i].id < s[j].id

SortDesc(S) ==
    IF S = {} THEN << >>
    ELSE CHOOSE s \in [1 .. Cardinality(S) -> S] :
            \A i, j \in 1 .. Cardinality(S) : i < j => s[i].id > s[j].id

\* How a table is kept: a table with a primary key by key ascending, as its
\* physical order cannot be observed (every SELECT sent on it is ordered by a
\* key); a table without one in insertion order.
Stored(t, rs) ==
    IF pks(t) # << >> THEN SortAsc({rs[i] : i \in DOMAIN rs}) ELSE rs

Drop(s, n) == IF n >= Len(s) THEN << >> ELSE SubSeq(s, n + 1, Len(s))

Take(s, n) == IF n >= Len(s) THEN s ELSE SubSeq(s, 1, n)

\* INSERT INTO "t" (cols) VALUES (...) RETURNING *  (or DEFAULT VALUES).
\* person.id defaults to the next value of its sequence, which advances even
\* when the insert then fails.
ExecInsert(w, t, items) ==
    LET serial == t = "person" /\ "id" \notin DOMAIN items
        row == [c \in column_names(t) |->
                   IF c \in DOMAIN items THEN items[c]
                   ELSE IF serial /\ c = "id" THEN w.nextid ELSE None]
        w1 == Sent([w EXCEPT !.nextid = IF serial THEN @ + 1 ELSE @],
                   Stmt("INSERT", t))
    IN IF PkViolation(t, Append(w.rows[t], row))
       THEN Raise(w1, "IntegrityError")
       ELSE [w1 EXCEPT !.rows[t] = Stored(t, Append(@, row)), !.ret = <<row>>]

\* UPDATE "t" SET col=%s, ... [WHERE comps] RETURNING *
\* pg.py Update.__str__ writes " WHERE " + str(where) whenever where is truthy,
\* so an And() without children gives "... WHERE " and the backend rejects it.
ExecUpdate(w, t, items, where) ==
    LET w1 == Sent(w, Stmt("UPDATE", t))
        rs == w.rows[t]
        hit(r) == ~Truthy(where) \/ Matches(r, where.comps)
        new == [i \in DOMAIN rs |-> IF hit(rs[i]) THEN Merge(rs[i], items) ELSE rs[i]]
        out == SelectSeq([i \in DOMAIN rs |-> [hit |-> hit(rs[i]), row |-> new[i]]],
                         LAMBDA x : x.hit)
    IN IF \/ DOMAIN items = {}
          \/ Truthy(where) /\ OperatorStrEmpty(where)
          \/ Truthy(where) /\ UndefinedColumn(t, where.comps)
       THEN Raise(w1, "ProgrammingError")
       ELSE IF PkViolation(t, new) THEN Raise(w1, "IntegrityError")
       ELSE [w1 EXCEPT !.rows[t] = Stored(t, new),
                       !.ret = [i \in DOMAIN out |-> out[i].row]]

\* DELETE FROM "t" [WHERE comps], built by the same Update.__str__
ExecDelete(w, t, where) ==
    LET w1 == Sent(w, Stmt("DELETE", t))
        hit(r) == ~Truthy(where) \/ Matches(r, where.comps)
    IN IF \/ Truthy(where) /\ OperatorStrEmpty(where)
          \/ Truthy(where) /\ UndefinedColumn(t, where.comps)
       THEN Raise(w1, "ProgrammingError")
       ELSE [w1 EXCEPT !.rows[t] = SelectSeq(@, LAMBDA r : ~hit(r)), !.ret = << >>]

\* The rows SELECT * FROM "t" [WHERE ..] [ORDER BY ..] [LIMIT n] [OFFSET m]
\* returns.  pg.py Select.__str__ writes WHERE only for an Operator that has
\* children, and LIMIT/OFFSET only for a truthy (non-zero) number.
SelectRows(rs, t, cs, order_by, limit, offset) ==
    LET Ordered(hits) ==
            IF order_by = "id ASC" THEN SortAsc({hits[i] : i \in DOMAIN hits})
            ELSE IF order_by = "id DESC" THEN SortDesc({hits[i] : i \in DOMAIN hits})
            ELSE hits
        Skipped(ordered) == IF offset # None THEN Drop(ordered, offset) ELSE ordered
        Limited(skipped) == IF limit # None THEN Take(skipped, limit) ELSE skipped
    IN Limited(Skipped(Ordered(SelectSeq(rs[t], LAMBDA r : Matches(r, cs)))))

----------------------------------------------------------------------------
(* dictorm.py: Table and Dict *)

\* Comparison objects declared as references: column1, column2, many
Ref(t, name) == comps[refs[t][name]]

\* Table.updateable_column_names: the columns that are not generated (none is,
\* in this schema) plus the declared reference names.  The memo is dropped by
\* every Table.__setitem__, so it always equals this value.
updateable_column_names(t) == column_names(t) \cup DOMAIN refs[t]

\* Dict.__init__: a transient Dict.  row_pk is specification state, not a
\* field of the code: the primary-key values of the row the object was last
\* read from or flushed to (empty for a Dict that never was).  read is
\* specification state too: whether the object was made by a read.
NewDict(t, data) ==
    [table |-> t, data |-> data, in_db |-> FALSE, old_pk_and |-> NoOperator,
     row_pk |-> EmptyMap, read |-> FALSE]

\* __next__ without "d._in_db = True"
FetchedNew(t, row) ==
    [NewDict(t, row) EXCEPT !.row_pk = Restrict(row, PkSet(t)), !.read = TRUE]

\* The Dict ResultsGenerator.__next__ returns for a fetched row:
\* d = self.table(d); d._in_db = True
Fetched(t, row) ==
    [NewDict(t, row) EXCEPT !.in_db = TRUE, !.row_pk = Restrict(row, PkSet(t)),
                            !.read = TRUE]

\* Table.__call__: a Dict of this table with every reference name set to None
\* through Dict.__setitem__ (a reference name is always updateable).
TableCall(t, data) ==
    NewDict(t, Merge(data, [r \in DOMAIN refs[t] |-> None]))

\* Dict.pk_and: And(table[k] == v) over the entries that are primary keys
pk_and(self) ==
    LET ks == SelectSeq(pks(self.table), LAMBDA k : k \in DOMAIN self.data)
    IN And([i \in DOMAIN ks |-> Eq(Column(self.table, ks[i]), self.data[ks[i]])])

\* Dict.no_refs: the entries whose key is not a reference name
no_refs(self) == Restrict(self.data, (DOMAIN self.data) \ DOMAIN refs[self.table])

\* Dict.references
references(self) == Restrict(self.data, DOMAIN refs[self.table])

\* self._old_pk_and or self.pk_and()
WherePk(self) == IF Truthy(self.old_pk_and) THEN self.old_pk_and ELSE pk_and(self)

\* The values of a Dict that are Dicts, in a fixed order of their keys
Children(self) ==
    LET ks == SetToSeq({k \in DOMAIN self.data : IsDict(self.data[k])})
    IN [i \in DOMAIN ks |-> -self.data[ks[i]]]

\* Dict.flush's tail without "if d: super().__init__(d)"
FlushTailKeep(w, d, in_db) ==
    LET self == w.dicts[d]
        new == [self EXCEPT !.in_db = in_db]
    IN [w EXCEPT !.dicts[d] = [new EXCEPT !.old_pk_and = pk_and(new),
                                          !.row_pk = IF w.ret # << >>
                                                     THEN Restrict(w.ret[1], PkSet(self.table))
                                                     ELSE @],
                 !.val = -d]

\* Dict.flush's tail without "self._in_db = True"
FlushTailTransient(w, d, in_db) ==
    LET self == w.dicts[d]
        data == IF w.ret # << >> THEN Merge(self.data, w.ret[1]) ELSE self.data
        new == [self EXCEPT !.data = data]
    IN [w EXCEPT !.dicts[d] = [new EXCEPT !.old_pk_and = pk_and(new)], !.val = -d]

\* Dict.flush's tail: if a row came back it replaces the entries it names;
\* the primary-key snapshot is taken from the result.
FlushTail(w, d, in_db) ==
    LET self == w.dicts[d]
        data == IF w.ret # << >> THEN Merge(self.data, w.ret[1]) ELSE self.data
        new == [self EXCEPT !.data = data, !.in_db = in_db]
    IN [w EXCEPT !.dicts[d] = [new EXCEPT !.old_pk_and = pk_and(new),
                                          !.row_pk = IF w.ret # << >>
                                                     THEN Restrict(data, PkSet(self.table))
                                                     ELSE @],
                 !.val = -d]

\* Dict.flush.  fuel bounds the depth of the cascade into held Dicts; the
\* interpreter's recursion limit plays that part in the code.
RECURSIVE flush(_, _, _)
RECURSIVE FlushEach(_, _, _)
FlushEach(w, ds, fuel) ==
    IF ds = << >> \/ w.raised # "" THEN w
    ELSE FlushEach(flush(w, Head(ds), fuel), Tail(ds), fuel)

\* Dict.flush without its loop over the values that are Dicts
flush_alone(w, d, fuel) ==
    IF fuel = 0 THEN Raise(w, "RecursionError")
    ELSE
    LET t == w.dicts[d].table
        self == w.dicts[d]
        items == Restrict(no_refs(self), updateable_column_names(t))
    IN IF ~self.in_db
       THEN LET w2 == ExecInsert(w, t, items)
            IN IF w2.raised # "" THEN w2 ELSE FlushTail(w2, d, TRUE)
       ELSE IF pks(t) = << >> THEN Raise(w, "NoPrimaryKey")
       ELSE LET w2 == ExecUpdate(w, t, items, WherePk(self))
            IN IF w2.raised # "" THEN w2 ELSE FlushTail(w2, d, TRUE)

\* Dict.flush without "if not self.table.pks: raise NoPrimaryKey"
flush_unchecked(w, d, fuel) ==
    IF fuel = 0 THEN Raise(w, "RecursionError")
    ELSE
    LET t == w.dicts[d].table
        w1 == IF DOMAIN refs[t] # {}
              THEN FlushEach(w, Children(w.dicts[d]), fuel - 1) ELSE w
        self == w1.dicts[d]
        items == Restrict(no_refs(self), updateable_column_names(t))
    IN IF w1.raised # "" THEN w1
       ELSE LET w2 == IF ~self.in_db THEN ExecInsert(w1, t, items)
                      ELSE ExecUpdate(w1, t, items, WherePk(self))
            IN IF w2.raised # "" THEN w2 ELSE FlushTail(w2, d, TRUE)

flush(w, d, fuel) ==
    IF fuel = 0 THEN Raise(w, "RecursionError")
    ELSE
    LET t == w.dicts[d].table
        w1 == IF DOMAIN refs[t] # {}
              THEN FlushEach(w, Children(w.dicts[d]), fuel - 1) ELSE w
        self == w1.dicts[d]
        items == Restrict(no_refs(self), updateable_column_names(t))
    IN IF w1.raised # "" THEN w1
       ELSE IF ~self.in_db
       THEN LET w2 == ExecInsert(w1, t, items)
            IN IF w2.raised # "" THEN w2 ELSE FlushTail(w2, d, TRUE)
       ELSE IF pks(t) = << >> THEN Raise(w1, "NoPrimaryKey")
       ELSE LET w2 == ExecUpdate(w1, t, items, WherePk(self))
            IN IF w2.raised # "" THEN w2 ELSE FlushTail(w2, d, TRUE)

\* Dict.delete
delete(w, d) ==
    LET self == w.dicts[d]
    IN ExecDelete(w, self.table, WherePk(self))

\* Dict.__setitem__ without its CannotUpdateColumn check
DictSetItemUnchecked(w, d, key, value) ==
    LET self == w.dicts[d]
        t == self.table
        reset == IF key \in DOMAIN fks[t]
                 THEN Merge(self.data, [k \in {fks[t][key]} |-> None])
                 ELSE self.data
    IN [w EXCEPT !.dicts[d].data = Merge(reset, [k \in {key} |-> value])]

\* Dict.__setitem__
DictSetItem(w, d, key, value) ==
    LET self == w.dicts[d]
        t == self.table
        reset == IF key \in DOMAIN fks[t]
                 THEN Merge(self.data, [k \in {fks[t][key]} |-> None])
                 ELSE self.data
        w1 == [w EXCEPT !.dicts[d].data = reset]
    IN IF key \notin updateable_column_names(t)
       THEN Raise(w1, "CannotUpdateColumn")
       ELSE [w1 EXCEPT !.dicts[d].data = Merge(reset, [k \in {key} |-> value])]

----------------------------------------------------------------------------
(* dictorm.py: args_to_comp, Table.get_where, ResultsGenerator *)

\* A positional argument of get_where/refine: a plain value, or a Comparison
NoComparison == Eq(Column("", ""), None)

Plain(v) == [plain |-> TRUE, value |-> v, comp |-> NoComparison]

Comp(c) == [plain |-> FALSE, value |-> None, comp |-> c]

\* The positional arguments of a call by one plain value: the first id, the
\* last id, any id
ByFirstId == <<Plain(1)>>

ByMaxId == <<Plain(MaxId)>>

ById == {<<Plain(i)>> : i \in Ids}

\* args_to_comp without "pk_uses += 1"
RECURSIVE ArgsLoopSamePk(_, _, _, _)
ArgsLoopSamePk(cs, t, a, pk_uses) ==
    IF a = << >> THEN [raised |-> "", comps |-> cs]
    ELSE IF ~Head(a).plain
    THEN ArgsLoopSamePk(Append(cs, Head(a).comp), t, Tail(a), pk_uses)
    ELSE IF pks(t) = << >> THEN [raised |-> "NoPrimaryKey", comps |-> cs]
    ELSE IF pk_uses + 1 > Len(pks(t)) THEN [raised |-> "NoPrimaryKey", comps |-> cs]
    ELSE ArgsLoopSamePk(Append(cs, Eq(Column(t, pks(t)[pk_uses + 1]), Head(a).value)),
                        t, Tail(a), pk_uses)

\* args_to_comp's loop over *args: a Comparison is appended as it is, a plain
\* value is paired with the next primary key; IndexError is NoPrimaryKey.
RECURSIVE ArgsLoop(_, _, _, _)
ArgsLoop(cs, t, a, pk_uses) ==
    IF a = << >> THEN [raised |-> "", comps |-> cs]
    ELSE IF ~Head(a).plain
    THEN ArgsLoop(Append(cs, Head(a).comp), t, Tail(a), pk_uses)
    ELSE IF pks(t) = << >> THEN [raised |-> "NoPrimaryKey", comps |-> cs]
    ELSE IF pk_uses + 1 > Len(pks(t)) THEN [raised |-> "NoPrimaryKey", comps |-> cs]
    ELSE ArgsLoop(Append(cs, Eq(Column(t, pks(t)[pk_uses + 1]), Head(a).value)),
                  t, Tail(a), pk_uses + 1)

\* args_to_comp(operator, table, *args, **kwargs), on the operator's children
args_to_comp(cs, t, a, kw) ==
    LET r == ArgsLoop(cs, t, a, 0)
        ks == SetToSeq(DOMAIN kw)
    IN IF r.raised # "" THEN r
       ELSE [r EXCEPT !.comps = @ \o [i \in DOMAIN ks |-> Eq(Column(t, ks[i]), kw[ks[i]])]]

\* A Select by value: its table, the children of its And, ORDER BY, LIMIT, OFFSET
Select(t, cs) == [table |-> t, comps |-> cs, order_by |-> "", limit |-> None, offset |-> None]

\* Table.get_where(*a, **kw): the query of the ResultsGenerator it returns.
\* Table.order_by is None unless the caller sets it, so the order is the
\* first primary key ascending, or none.
get_where(t, a, kw) ==
    LET r == args_to_comp(<< >>, t, a, kw)
        order_by == IF pks(t) # << >> THEN pks(t)[1] \o " ASC" ELSE ""
    IN [raised |-> r.raised, query |-> [Select(t, r.comps) EXCEPT !.order_by = order_by]]

\* DictDB.get_cursor: a new cursor of the connection, which its one holder
\* keeps; db_curs is the cursor DictDB.__init__ made for the Tables and Dicts.
db_curs == "db.curs"

get_cursor_shared == db_curs

get_cursor == "conn.cursor()"

\* ResultsGenerator.__init__.  q is the handle of its Select (0 for a generator
\* that lives only inside one call).  curs is its cursor, pending what a cursor
\* of its own has yet to return.  made, result, nexec and parent are
\* specification state: the query as it was at construction, the rows the
\* executed statement returned, how often the cursor executed, and the
\* generator this one was derived from.
ResultsGenerator(t, q, qv) ==
    [table |-> t, query |-> q, cache |-> << >>, completed |-> FALSE,
     executed |-> FALSE, nocache |-> FALSE, curs |-> get_cursor, pending |-> << >>,
     made |-> qv, result |-> << >>, nexec |-> 0, parent |-> 0]

\* __execute_once without its "if not self.executed"
execute_always(rg, qv, rs) ==
    LET Ran(got) == [rg EXCEPT !.executed = TRUE, !.pending = got, !.result = got,
                               !.nexec = @ + 1]
    IN Ran(SelectRows(rs, qv.table, qv.comps, qv.order_by, qv.limit, qv.offset))

\* ResultsGenerator.__execute_once, for the value qv of self.query
execute_once(rg, qv, rs) ==
    LET Ran(got) == [rg EXCEPT !.executed = TRUE, !.pending = got, !.result = got,
                               !.nexec = @ + 1]
    IN IF rg.executed THEN rg
       ELSE Ran(SelectRows(rs, qv.table, qv.comps, qv.order_by, qv.limit, qv.offset))

\* The entries of the Dict that __next__ makes of a fetched row: self.table(d)
RowDict(t, row) == TableCall(t, row).data

\* ResultsGenerator.__next__: out is << >> for StopIteration, else <<row>>.
\* Every call fetches once from the cursor.
next(rg, qv, rs) ==
    LET Fetch(r2) ==
            IF r2.pending = << >>
            THEN [rg |-> [r2 EXCEPT !.completed = TRUE], out |-> << >>]
            ELSE [rg |-> [r2 EXCEPT !.pending = Tail(@),
                                    !.cache = IF rg.nocache THEN @
                                              ELSE Append(@, RowDict(rg.table, Head(r2.pending)))],
                  out |-> <<RowDict(rg.table, Head(r2.pending))>>]
    IN Fetch(execute_once(rg, qv, rs))

\* get_one without the second next(): the first row, however many there are
get_one_first(w, t, a, kw) ==
    LET Read(n1, w1) ==
            IF n1.out = << >> THEN [w1 EXCEPT !.val = None]
            ELSE [w1 EXCEPT !.dicts = Append(@, Fetched(t, n1.out[1])),
                            !.val = -(Len(w1.dicts) + 1)]
        Got(g) ==
            IF g.raised # "" THEN Raise(w, g.raised)
            ELSE Read(next(ResultsGenerator(t, 0, g.query), g.query, w.rows),
                      Sent(w, Stmt("SELECT", t)))
    IN Got(get_where(t, a, kw))

\* Table.get_one(*a, **kw): None, the one Dict (allocated on the heap, marked
\* persisted), or UnexpectedRows
get_one(w, t, a, kw) ==
    LET Second(n1, n2, w1) ==
            IF n2.out # << >> THEN Raise(w1, "UnexpectedRows")
            ELSE [w1 EXCEPT !.dicts = Append(@, Fetched(t, n1.out[1])),
                            !.val = -(Len(w1.dicts) + 1)]
        First(n1, qv, w1) ==
            IF n1.out = << >> THEN [w1 EXCEPT !.val = None]
            ELSE Second(n1, next(n1.rg, qv, w.rows), w1)
        Got(g) ==
            IF g.raised # "" THEN Raise(w, g.raised)
            ELSE First(next(ResultsGenerator(t, 0, g.query), g.query, w.rows), g.query,
                       Sent(w, Stmt("SELECT", t)))
    IN Got(get_where(t, a, kw))

\* Dict.__getitem__
DictGetItem(w, d, key) ==
    LET self == w.dicts[d]
        t == self.table
        isref == key \in DOMAIN refs[t]
        val == DGet(self.data, key)
        Cached(w1) ==
            IF w1.raised # "" THEN w1
            ELSE [w1 EXCEPT !.dicts[d].data = Merge(@, [k \in {key} |-> w1.val])]
        Many(g) == [w EXCEPT !.gen = <<g.query>>]
        Resolve(ref, comparison) ==
            IF ref.many
            THEN Many(get_where(ref.column2.table, <<Comp(comparison)>>, EmptyMap))
            ELSE Cached(get_one(w, ref.column2.table, <<Comp(comparison)>>, EmptyMap))
        Referenced(ref) ==
            IF ref.column1.column \notin DOMAIN self.data THEN Raise(w, "KeyError")
            ELSE Resolve(ref, Eq(Column(ref.column2.table, ref.column2.column),
                                 self.data[ref.column1.column]))
    IN IF ~isref /\ key \notin DOMAIN self.data THEN Raise(w, "KeyError")
       ELSE IF isref /\ val = None THEN Referenced(Ref(t, key))
       ELSE [w EXCEPT !.val = val]

\* Dict.get: return self[key] if key in self else default
DictGet(w, d, key, default) ==
    IF key \in DOMAIN w.dicts[d].data THEN DictGetItem(w, d, key)
    ELSE [w EXCEPT !.val = default]

----------------------------------------------------------------------------
(* dictorm.py and pg.py: Select and ResultsGenerator as objects *)

\* A heap is the Select objects, the And objects they hold and the
\* ResultsGenerator objects, threaded through a call; new is the handle of the
\* object the call made, raised the exception it raised.
HeapOf(qs, os, gs) == [queries |-> qs, opers |-> os, rgs |-> gs, new |-> 0, raised |-> ""]

\* The Select a handle denotes, by value: the children of its And in place of
\* the And object
QueryValue(h, q) ==
    [table |-> h.queries[q].table, comps |-> h.opers[h.queries[q].ooc],
     order_by |-> h.queries[q].order_by, limit |-> h.queries[q].limit,
     offset |-> h.queries[q].offset]

\* Select.order_by / limit / offset: set the field on the object, return it
Select_order_by(h, q, ob) == [h EXCEPT !.queries[q].order_by = ob]

Select_limit(h, q, n) == [h EXCEPT !.queries[q].limit = n]

Select_offset(h, q, n) == [h EXCEPT !.queries[q].offset = n]

\* Select._copy is not among the sources; it is modelled as the specification
\* describes it: a new Select equal to the original, holding a new And with
\* the same children, so that nothing mutable is shared.
Select_copy(h, q) ==
    [h EXCEPT !.opers = Append(@, h.opers[h.queries[q].ooc]),
              !.queries = Append(@, [h.queries[q] EXCEPT !.ooc = Len(h.opers) + 1]),
              !.new = Len(h.queries) + 1]

\* ResultsGenerator(table, query, db) allocated on the heap
NewRG(h, t, q, from) ==
    [h EXCEPT !.rgs = Append(@, [ResultsGenerator(t, q, QueryValue(h, q))
                                    EXCEPT !.parent = from]),
              !.new = Len(h.rgs) + 1]

\* Table.get_where returning its ResultsGenerator: And(), Select(name, and)
\* .order_by(..), ResultsGenerator(self, query, db)
table_get_where(h, t, a, kw) ==
    LET Made(g) ==
            IF g.raised # "" THEN [h EXCEPT !.raised = g.raised]
            ELSE NewRG([h EXCEPT !.opers = Append(@, g.query.comps),
                                 !.queries = Append(@, [table |-> t,
                                                        ooc |-> Len(h.opers) + 1,
                                                        order_by |-> g.query.order_by,
                                                        limit |-> None, offset |-> None])],
                       t, Len(h.queries) + 1, 0)
    IN Made(get_where(t, a, kw))

\* Table.get_raw(sql) with the text SELECT * FROM "t": RawQuery(sql), which
\* build() returns as it is, and ResultsGenerator(self, query, self.db)
table_get_raw(h, t) ==
    NewRG([h EXCEPT !.opers = Append(@, << >>),
                    !.queries = Append(@, [table |-> t, ooc |-> Len(h.opers) + 1,
                                           order_by |-> "", limit |-> None,
                                           offset |-> None])],
          t, Len(h.queries) + 1, 0)

\* ResultsGenerator.nocache
nocache(h, r) ==
    LET Made(h2) == [h2 EXCEPT !.rgs[h2.new].nocache = TRUE]
        Copied(h1) == Made(NewRG(h1, h.rgs[r].table, h1.new, r))
    IN Copied(Select_copy(h, h.rgs[r].query))

\* ResultsGenerator.refine: args_to_comp on the copied Select adds to the And
\* the copy holds (Select.__add__, Operator.__add__), in place.  When it
\* raises, the copy is garbage and the heap is as before.
refine(h, r, a, kw) ==
    LET Added(h1, o, res) ==
            IF res.raised # "" THEN [h EXCEPT !.raised = res.raised]
            ELSE NewRG([h1 EXCEPT !.opers[o] = res.comps], h.rgs[r].table, h1.new, r)
        Copied(h1, o) == Added(h1, o, args_to_comp(h1.opers[o], h.rgs[r].table, a, kw))
        Query(h1) == Copied(h1, h1.queries[h1.new].ooc)
    IN Query(Select_copy(h, h.rgs[r].query))

\* ResultsGenerator.order_by
order_by(h, r, ob) ==
    LET Copied(h1) == NewRG(Select_order_by(h1, h1.new, ob), h.rgs[r].table, h1.new, r)
    IN Copied(Select_copy(h, h.rgs[r].query))

\* limit on the generator's own Select instead of a copy of it
limit_shared(h, r, n) ==
    NewRG(Select_limit(h, h.rgs[r].query, n), h.rgs[r].table, h.rgs[r].query, r)

\* ResultsGenerator.limit
limit(h, r, n) ==
    LET Copied(h1) == NewRG(Select_limit(h1, h1.new, n), h.rgs[r].table, h1.new, r)
    IN Copied(Select_copy(h, h.rgs[r].query))

\* ResultsGenerator.offset
offset(h, r, n) ==
    LET Copied(h1) == NewRG(Select_offset(h1, h1.new, n), h.rgs[r].table, h1.new, r)
    IN Copied(Select_copy(h, h.rgs[r].query))

\* ResultsGenerator.__len__: cursor.rowcount after __execute_once
len(rg, qv, rs) ==
    LET Count(r1) == [rg |-> r1, val |-> Len(r1.result)]
    IN Count(execute_once(rg, qv, rs))

\* list(rg) if __iter__ gave the cached rows first and then the rows to come
list_all(rg, qv, rs) ==
    LET Drained(r1, got) ==
            [rg |-> [r1 EXCEPT !.pending = << >>,
                               !.cache = IF rg.nocache THEN @ ELSE @ \o got,
                               !.completed = TRUE],
             out |-> rg.cache \o got, fetches |-> Len(got) + 1]
        Hinted(r1) ==
            IF rg.completed THEN [rg |-> r1, out |-> rg.cache, fetches |-> 0]
            ELSE Drained(r1, [i \in DOMAIN r1.pending |-> RowDict(rg.table, r1.pending[i])])
    IN Hinted(len(rg, qv, rs).rg)

\* list(rg): __iter__ gives iter(self.cache) once completed, else self;
\* __len__ is asked for the length hint; then __next__ until StopIteration.
\* fetches counts the cursor's fetchone calls.
list(rg, qv, rs) ==
    LET Drained(r1, got) ==
            [rg |-> [r1 EXCEPT !.pending = << >>,
                               !.cache = IF rg.nocache THEN @ ELSE @ \o got,
                               !.completed = TRUE],
             out |-> got, fetches |-> Len(got) + 1]
        Hinted(r1) ==
            IF rg.completed THEN [rg |-> r1, out |-> rg.cache, fetches |-> 0]
            ELSE Drained(r1, [i \in DOMAIN r1.pending |-> RowDict(rg.table, r1.pending[i])])
    IN Hinted(len(rg, qv, rs).rg)

\* self.cache[i] of a Python list: out is << >> for IndexError
Index(s, i) ==
    IF i >= 0 /\ i < Len(s) THEN <<s[i + 1]>>
    ELSE IF i < 0 /\ -i <= Len(s) THEN <<s[Len(s) + i + 1]>>
    ELSE << >>

\* ResultsGenerator.__getitem__(i) for an int i.  The while loop returns or
\* raises in its first round.
getitem(rg, qv, rs, i) ==
    LET Cached(c) == [rg |-> rg, out |-> c, raised |-> "", fetches |-> 0]
        Pulled(n) ==
            [rg |-> n.rg, out |-> n.out, fetches |-> 1,
             raised |-> IF n.out # << >> THEN ""
                        ELSE IF rg.nocache THEN "NoCache" ELSE "IndexError"]
        Picked(l, c) ==
            [rg |-> l.rg, out |-> c, fetches |-> l.fetches,
             raised |-> IF c = << >> THEN "IndexError" ELSE ""]
        All(l) == Picked(l, Index(l.rg.cache, i))
    IN IF i >= 0 /\ i < Len(rg.cache) THEN Cached(Index(rg.cache, i))
       ELSE IF i >= 0 /\ i <= Len(rg.cache) THEN Pulled(next(rg, qv, rs))
       ELSE IF rg.completed THEN All([rg |-> rg, fetches |-> 0])
       ELSE All(list(rg, qv, rs))

----------------------------------------------------------------------------
(* dictorm.py: reference declaration *)

\* Column.__eq__ / Column.many with a Column on the right: a new Comparison
Comparison(c1, c2, many) == [column1 |-> c1, column2 |-> c2, many |-> many]

\* Table.__setitem__(ref_name, ref) on the table named t, for the Comparison
\* object with handle c.  The swap is done in place, on the object.
TableSetItem(st, t, ref_name, c) ==
    LET ref == st.comps[c]
        fixed == IF ref.column1.table # t
                 THEN [ref EXCEPT !.column1 = ref.column2, !.column2 = ref.column1]
                 ELSE ref
    IN [comps |-> [st.comps EXCEPT ![c] = fixed],
        fks |-> [st.fks EXCEPT ![t] = Merge(@, [k \in {fixed.column1.column} |-> ref_name])],
        refs |-> [st.refs EXCEPT ![t] = Merge(@, [k \in {ref_name} |-> c])]]

Decls == [comps |-> comps, fks |-> fks, refs |-> refs]

----------------------------------------------------------------------------
(* dictorm.py and pg.py: substratum and aggregate references *)

\* Comparison.substratum(column): a copy with _substratum set, many kept
Comparison_substratum(comp, column) ==
    [column1 |-> comp.column1, column2 |-> comp.column2, many |-> comp.many,
     substratum |-> column, aggregate |-> FALSE]

\* Comparison.aggregate(column)
Comparison_aggregate(comp, column) ==
    [Comparison_substratum(comp, column) EXCEPT !.aggregate = TRUE]

\* ref._substratum and ref._aggregate, which Comparison.__init__ sets to None
\* and False
substratum_of(ref) == IF "substratum" \in DOMAIN ref THEN ref.substratum ELSE ""

aggregate_of(ref) == "aggregate" \in DOMAIN ref /\ ref.aggregate

\* What reading a key gives: None, a column's value, a Dict (its entries), a
\* list or ResultsGenerator (its elements), or a key of a Dict
NoneValue == [kind |-> "None", data |-> EmptyMap, items |-> << >>, str |-> "", int |-> None]

IntValue(v) == IF v = None THEN NoneValue ELSE [NoneValue EXCEPT !.kind = "int", !.int = v]

DictValue(data) == [NoneValue EXCEPT !.kind = "Dict", !.data = data]

ListValue(items) == [NoneValue EXCEPT !.kind = "list", !.items = items]

StrValue(k) == [NoneValue EXCEPT !.kind = "str", !.str = k]

\* chain(*gen) that keeps only the first occurrence of each element
RECURSIVE chain_distinct(_)
chain_distinct(gen) ==
    IF gen = << >> THEN << >>
    ELSE LET rest == chain_distinct(Tail(gen))
             Fresh(x) == \A i \in DOMAIN Head(gen).items : Head(gen).items[i] # x
         IN Head(gen).items \o SelectSeq(rest, Fresh)

\* itertools.chain(*gen): the elements of each iterable, one iterable after the
\* other; iterating a Dict gives its keys
RECURSIVE chain(_)
chain(gen) ==
    IF gen = << >> THEN << >>
    ELSE (IF Head(gen).kind = "Dict"
          THEN LET ks == SetToSeq(DOMAIN Head(gen).data)
               IN [i \in DOMAIN ks |-> StrValue(ks[i])]
          ELSE Head(gen).items)
           \o chain(Tail(gen))

\* Dict.__getitem__ where the key is a declared reference without a cached
\* value, on a Dict of table t with the entries self; rs is the database.
\* The Dicts a 'many' reference yields are made by Table.__call__, and their
\* own references are read through the same method.
RECURSIVE Dict_getitem(_, _, _, _, _)
Dict_getitem(rs, t, self, key, depth) ==
    LET ref == Ref(t, key)
        table == ref.column2.table
        got == get_where(table, <<Comp(Eq(Column(table, ref.column2.column),
                                          self[ref.column1.column]))>>, EmptyMap)
        found == SelectRows(rs, table, got.query.comps, got.query.order_by,
                            got.query.limit, got.query.offset)
        Nested(data) == Dict_getitem(rs, table, data, substratum_of(ref), depth - 1)
        Read(data) ==
            IF substratum_of(ref) \notin DOMAIN data
            THEN [raised |-> "KeyError", val |-> NoneValue]
            ELSE IF substratum_of(ref) \in DOMAIN refs[table]
                    /\ data[substratum_of(ref)] = None
            THEN Nested(data)
            ELSE [raised |-> "", val |-> IntValue(data[substratum_of(ref)])]
        gen == [i \in DOMAIN found |->
                  IF substratum_of(ref) = ""
                  THEN [raised |-> "", val |-> DictValue(RowDict(table, found[i]))]
                  ELSE Read(RowDict(table, found[i]))]
        Failed == {i \in DOMAIN gen : gen[i].raised # ""}
        vals == [i \in DOMAIN gen |-> gen[i].val]
        first == Read(RowDict(table, found[1]))
    IN IF depth = 0 THEN [raised |-> "RecursionError", val |-> NoneValue]
       ELSE IF ref.column1.column \notin DOMAIN self
       THEN [raised |-> "KeyError", val |-> NoneValue]
       ELSE IF ref.many
       THEN IF Failed # {}
            THEN [raised |-> gen[CHOOSE i \in Failed : \A j \in Failed : i <= j].raised,
                  val |-> NoneValue]
            ELSE IF aggregate_of(ref)
            THEN IF \E i \in DOMAIN vals : vals[i].kind \in {"None", "int"}
                 THEN [raised |-> "TypeError", val |-> NoneValue]
                 ELSE [raised |-> "", val |-> ListValue(chain(vals))]
            ELSE [raised |-> "", val |-> ListValue(vals)]
       ELSE IF Len(found) > 1 THEN [raised |-> "UnexpectedRows", val |-> NoneValue]
       ELSE IF found = << >> THEN [raised |-> "", val |-> NoneValue]
       ELSE IF substratum_of(ref) # "" THEN first
       ELSE [raised |-> "", val |-> DictValue(RowDict(table, found[1]))]

----------------------------------------------------------------------------
(* dictorm.py: DictDB *)

\* The names a table of the database may have
TableNames == Tables \cup {"car"}

\* Table.__init__, as far as the registry is concerned: the object's name and
\* the reference names declared on it, none at first
Table(name) == [name |-> name, refs |-> {}]

\* dict.__init__() called without arguments on a dict that has entries: it
\* updates the dict with nothing, so every entry stays
dict_init(keys) == keys

\* The loop of refresh_tables: self[name] = table_cls(name, self) for each
\* name listed, in a fixed order
RECURSIVE Register(_, _)
Register(d, names) ==
    IF names = << >> THEN d
    ELSE Register([d EXCEPT !.objs = Append(@, Table(Head(names))),
                            !.keys = Merge(@, [k \in {Head(names)} |-> Len(d.objs) + 1])],
                  Tail(names))

\* refresh_tables ending with the self.conn.rollback() of DictDB.__init__
refresh_tables_rollback(d) ==
    [Register([d EXCEPT !.keys = IF DOMAIN d.keys # {} THEN dict_init(@) ELSE @],
              SetToSeq(d.catalog))
        EXCEPT !.conn.rollbacks = @ + 1]

\* DictDB.refresh_tables
refresh_tables(d) ==
    Register([d EXCEPT !.keys = IF DOMAIN d.keys # {} THEN dict_init(@) ELSE @],
             SetToSeq(d.catalog))

\* A connection: how often it was committed and rolled back
Connection == [commits |-> 0, rollbacks |-> 0]

\* DictDB.__init__ on a database that has the tables "catalog": keys is the
\* registry (name -> handle of a Table object), objs the Table objects made,
\* conn the connection, rolled back once after the tables were listed
DictDB(catalog) ==
    [refresh_tables([catalog |-> catalog, keys |-> EmptyMap, objs |-> << >>,
                     conn |-> Connection])
        EXCEPT !.conn.rollbacks = @ + 1]

\* What the body of a "with db.transaction(..)" block may raise: nothing, an
\* exception class derived from Exception (dictorm's own NoPrimaryKey), or one
\* derived from BaseException only
Raisable == {"", "NoPrimaryKey", "KeyboardInterrupt"}

\* isinstance(e, Exception)
IsException(e) == e = "NoPrimaryKey"

\* transaction whose except clause does not re-raise
transaction_swallow(d, commit, body) ==
    IF body # "" /\ IsException(body)
    THEN [db |-> [d EXCEPT !.conn.rollbacks = @ + 1], raised |-> ""]
    ELSE IF body # "" THEN [db |-> d, raised |-> body]
    ELSE IF commit THEN [db |-> [d EXCEPT !.conn.commits = @ + 1], raised |-> ""]
    ELSE [db |-> d, raised |-> ""]

\* DictDB.transaction(commit) around a body that raises "body" ("" for a body
\* that completes): try: yield / except Exception: rollback, raise / else:
\* commit if asked.  What the caller sees raised, and the DictDB afterwards.
transaction(d, commit, body) ==
    IF body # "" /\ IsException(body)
    THEN [db |-> [d EXCEPT !.conn.rollbacks = @ + 1], raised |-> body]
    ELSE IF body # "" THEN [db |-> d, raised |-> body]
    ELSE IF commit THEN [db |-> [d EXCEPT !.conn.commits = @ + 1], raised |-> ""]
    ELSE [db |-> d, raised |-> ""]

----------------------------------------------------------------------------
(* pg.py and sqlite.py: Comparisons and statements as text *)

\* DBKind
DBKinds == {"postgres", "sqlite3"}

\* class Null: the second operand of a null test
Null == -1

\* Column.comparison(self, column, kind): a Comparison by value
comparison(c1, c2, kind) == [column1 |-> c1, column2 |-> c2, kind |-> kind]

\* The methods of Column that build a Comparison, and the kind each passes
Methods == {"__eq__", "__ge__", "Is", "IsNull", "IsNotNull"}

NullTests == {"IsNull", "IsNotNull"}

KindOf(m) ==
    CASE m = "__eq__" -> "="
      [] m = "__ge__" -> ">="
      [] m = "Is" -> " IS "
      [] m = "IsNull" -> " IS NULL"
      [] OTHER -> " IS NOT NULL"

\* pg.Column's methods.  sqlite.Column derives from query.Column, which has
\* the binary methods only: a null test on it is an AttributeError.
Column_method(kind, c, m, v) ==
    IF kind = "sqlite3" /\ m \in NullTests
    THEN [raised |-> "AttributeError", comp |-> comparison(c, Null, "")]
    ELSE [raised |-> "", comp |-> comparison(c, IF m \in NullTests THEN Null ELSE v, KindOf(m))]

\* Comparison._null_kind
null_kind(c) == c.column2 = Null

\* A piece of SQL text.  The piece that is a placeholder carries the value
\* the statement compares with or stores at that place; no other piece
\* carries one.
Token(text) == [text |-> text, value |-> None]

Holder(text, v) == [text |-> text, value |-> v]

\* '"{0}"'.format(name)
Quoted(name) == "\"" \o name \o "\""

\* The text pieces joined
RECURSIVE Text(_)
Text(tokens) == IF tokens = << >> THEN "" ELSE Head(tokens).text \o Text(Tail(tokens))

\* pg.Comparison.__str__, interpolation_str '%s'
Comparison_str(c) ==
    <<Token(Quoted(c.column1.column)), Token(c.kind)>>
       \o IF null_kind(c) THEN << >> ELSE <<Holder("%s", c.column2)>>

\* query.Expression.__str__ with sqlite.Expression's interpolation_str '?'
Expression_str(c) ==
    <<Token(c.column1.column), Token(c.kind), Holder("?", c.column2)>>

\* str(comparison) on the Comparison class of the dialect
Dialect_str(kind, c) == IF kind = "sqlite3" THEN Expression_str(c) ELSE Comparison_str(c)

\* Operator(kind, operators_or_comp), by value
Operator(kind, cs) == [kind |-> kind, operators_or_comp |-> cs]

\* isinstance(x, Operator); anything else in a predicate is a Comparison
IsOperator(x) == "operators_or_comp" \in DOMAIN x

\* wrap_ooc and the join of Operator.__str__
RECURSIVE wrap_ooc(_), Operator_join(_, _)
wrap_ooc(ooc) ==
    IF IsOperator(ooc)
    THEN <<Token("(")>>
           \o Operator_join(" " \o ooc.kind \o " ", ooc.operators_or_comp)
           \o <<Token(")")>>
    ELSE Comparison_str(ooc)

Operator_join(kind, cs) ==
    IF cs = << >> THEN << >>
    ELSE IF Tail(cs) = << >> THEN wrap_ooc(Head(cs))
    ELSE wrap_ooc(Head(cs)) \o <<Token(kind)>> \o Operator_join(kind, Tail(cs))

\* Operator.__str__
Operator_str(o) == Operator_join(" " \o o.kind \o " ", o.operators_or_comp)

\* str(operators_or_comp)
ooc_str(x) == IF IsOperator(x) THEN Operator_str(x) ELSE Comparison_str(x)

\* Operator.__iter__ without "and not comp._null_kind()"
RECURSIVE Operator_iter_all(_)
Operator_iter_all(cs) ==
    IF cs = << >> THEN << >>
    ELSE (IF IsOperator(Head(cs)) THEN Operator_iter_all(Head(cs).operators_or_comp)
          ELSE <<Head(cs).column2>>)
           \o Operator_iter_all(Tail(cs))

\* Operator.__iter__ over the children: a nested Operator's values in its
\* place, a Comparison's value unless it is a null test
RECURSIVE Operator_iter(_)
Operator_iter(cs) ==
    IF cs = << >> THEN << >>
    ELSE (IF IsOperator(Head(cs)) THEN Operator_iter(Head(cs).operators_or_comp)
          ELSE IF ~null_kind(Head(cs)) THEN <<Head(cs).column2>>
          ELSE << >>)
           \o Operator_iter(Tail(cs))

\* Comparison.__iter__
Comparison_iter(c) == IF null_kind(c) THEN << >> ELSE <<c.column2>>

\* list(operators_or_comp)
ooc_list(x) ==
    IF IsOperator(x) THEN Operator_iter(x.operators_or_comp) ELSE Comparison_iter(x)

\* A statement object: its class, table, keyword values in the order given
\* (pairs of column and value; sort_keys is off outside the tests), predicate
\* (none, or one Operator or Comparison), RETURNING, ORDER BY, LIMIT, OFFSET
Statement(class, t, values, where, returning, ob, lim, off) ==
    [class |-> class, table |-> t, values |-> values, where |-> where,
     returning |-> returning, order_by |-> ob, limit |-> lim, offset |-> off]

\* Insert._ordered_keys
ordered_keys(q) == [i \in DOMAIN q.values |-> q.values[i][1]]

\* self._values[k]
ValueOf(q, k) == q.values[CHOOSE i \in DOMAIN q.values : q.values[i][1] = k][2]

\* ', '.join(parts)
RECURSIVE Joined(_)
Joined(parts) ==
    IF parts = << >> THEN << >>
    ELSE IF Tail(parts) = << >> THEN Head(parts)
    ELSE Head(parts) \o <<Token(", ")>> \o Joined(Tail(parts))

\* The RETURNING part of Select, Insert and Update
Returning_str(q) ==
    IF q.returning = "*" THEN <<Token(" RETURNING *")>>
    ELSE IF q.returning # "" THEN <<Token(" RETURNING "), Token(Quoted(q.returning))>>
    ELSE << >>

\* Select.__str__
Select_str(q) ==
    <<Token("SELECT * FROM "), Token(Quoted(q.table))>>
      \o (IF q.where # << >>
             /\ (IsOperator(q.where[1]) => q.where[1].operators_or_comp # << >>)
          THEN <<Token(" WHERE ")>> \o ooc_str(q.where[1]) ELSE << >>)
      \o (IF q.order_by # "" THEN <<Token(" ORDER BY "), Token(q.order_by)>> ELSE << >>)
      \o Returning_str(q)
      \o (IF q.limit # None THEN <<Token(" LIMIT "), Token(ToString(q.limit))>> ELSE << >>)
      \o (IF q.offset # None THEN <<Token(" OFFSET "), Token(ToString(q.offset))>> ELSE << >>)

\* Select.values
Select_values(q) == IF q.where # << >> THEN ooc_list(q.where[1]) ELSE << >>

\* Insert._build_cvp and Insert.__str__: the i-th placeholder of VALUES stands
\* for the i-th column of the list
Insert_str(q) ==
    LET keys == ordered_keys(q)
        cvp == IF q.values = << >> THEN <<Token("DEFAULT VALUES")>>
               ELSE <<Token("(")>>
                      \o Joined([i \in DOMAIN keys |-> <<Token(Quoted(keys[i]))>>])
                      \o <<Token(") VALUES (")>>
                      \o Joined([i \in DOMAIN q.values |-> <<Holder("%s", ValueOf(q, keys[i]))>>])
                      \o <<Token(")")>>
    IN <<Token("INSERT INTO "), Token(Quoted(q.table)), Token(" ")>>
         \o cvp \o Returning_str(q)

\* Insert.values
Insert_values(q) ==
    LET keys == ordered_keys(q) IN [i \in DOMAIN keys |-> ValueOf(q, keys[i])]

\* Update._build_cvp
Update_build_cvp(q) ==
    LET keys == ordered_keys(q)
    IN Joined([i \in DOMAIN keys |->
                 <<Token(Quoted(keys[i])), Token("="), Holder("%s", ValueOf(q, keys[i]))>>])

\* Update.__str__; Delete is Update with a query that has no SET part
Update_str(q) ==
    (IF q.class = "Delete" THEN <<Token("DELETE FROM "), Token(Quoted(q.table))>>
     ELSE <<Token("UPDATE "), Token(Quoted(q.table)), Token(" SET ")>>
            \o Update_build_cvp(q))
      \o (IF q.where # << >> THEN <<Token(" WHERE ")>> \o ooc_str(q.where[1]) ELSE << >>)
      \o Returning_str(q)

\* Update.values
Update_values(q) ==
    Insert_values(q) \o IF q.where # << >> THEN ooc_list(q.where[1]) ELSE << >>

\* build(): (str(self), self.values())
build(q) ==
    IF q.class = "Select" THEN [sql |-> Select_str(q), values |-> Select_values(q)]
    ELSE IF q.class = "Insert" THEN [sql |-> Insert_str(q), values |-> Insert_values(q)]
    ELSE [sql |-> Update_str(q), values |-> Update_values(q)]

\* The column names in the order sorted() gives them
Alphabetical == <<"department_id", "id", "manager_id", "name", "person_id">>

\* query.Insert.sorted_items: the keyword values sorted by key
sorted_items(q) ==
    LET Has(k) == \E i \in DOMAIN q.values : q.values[i][1] = k
        keys == SelectSeq(Alphabetical, Has)
    IN [i \in DOMAIN keys |-> <<keys[i], ValueOf(q, keys[i])>>]

\* A statement of the sqlite dialect: query.Insert.__init__ and Update.__init__,
\* with the class attribute append_returning
SqliteStatement(class, t, values, where) ==
    [append_returning |-> ""] @@ Statement(class, t, values, where, "", "", None, None)

\* .returning(spec): sqlite.Insert overrides it to set append_returning;
\* sqlite.Update has no override and inherits query.Insert.returning
Sqlite_returning(q, spec) ==
    IF q.class = "SqliteInsert" THEN [q EXCEPT !.append_returning = spec]
    ELSE [q EXCEPT !.returning = spec]

\* query.Logical.__str__ over query.Expression.__str__
RECURSIVE Logical_str(_)
Logical_str(x) ==
    IF ~IsOperator(x) THEN Expression_str(x)
    ELSE IF x.operators_or_comp = << >> THEN << >>
    ELSE LET exp == Head(x.operators_or_comp)
             s == IF IsOperator(exp)
                  THEN <<Token("(")>> \o Logical_str(exp) \o <<Token(")")>>
                  ELSE Logical_str(exp)
             rest == Tail(x.operators_or_comp)
         IN IF rest = << >> THEN s
            ELSE s \o <<Token(" " \o x.kind \o " ")>>
                   \o Logical_str([x EXCEPT !.operators_or_comp = rest])

\* query.Update.__str__ and query.Insert.__str__ with interpolation_str '?'
Sqlite_str(q) ==
    LET items == sorted_items(q)
        returning == IF q.returning # ""
                     THEN <<Token(" RETURNING "), Token(q.returning)>> ELSE << >>
    IN IF q.class = "SqliteInsert"
       THEN <<Token("INSERT INTO "), Token(q.table), Token(" ")>>
              \o (IF items = << >> THEN <<Token("DEFAULT VALUES")>>
                  ELSE <<Token("(")>>
                         \o Joined([i \in DOMAIN items |-> <<Token(items[i][1])>>])
                         \o <<Token(") VALUES (")>>
                         \o Joined([i \in DOMAIN items |-> <<Holder("?", items[i][2])>>])
                         \o <<Token(")")>>)
              \o returning
       ELSE <<Token("UPDATE "), Token(q.table), Token(" SET ")>>
              \o Joined([i \in DOMAIN items |->
                           <<Token(items[i][1]), Token("="), Holder("?", items[i][2])>>])
              \o (IF q.where # << >>
                  THEN <<Token(" WHERE ")>> \o Logical_str(q.where[1]) ELSE << >>)
              \o returning

\* query.Logical.__iter__ and query.Expression.__iter__
RECURSIVE Logical_iter(_)
Logical_iter(x) ==
    IF ~IsOperator(x) THEN <<x.column2>>
    ELSE IF x.operators_or_comp = << >> THEN << >>
    ELSE Logical_iter(Head(x.operators_or_comp))
           \o Logical_iter([x EXCEPT !.operators_or_comp = Tail(@)])

\* query.Update.values and query.Insert.values
Sqlite_values(q) ==
    LET items == sorted_items(q)
    IN [i \in DOMAIN items |-> items[i][2]]
         \o IF q.class = "SqliteUpdate" /\ q.where # << >>
            THEN Logical_iter(q.where[1]) ELSE << >>

\* query.Insert.build, which Update inherits: one (sql, values) pair, or a list
\* of two when append_returning is set
Sqlite_build(q) ==
    LET pair == [sql |-> Sqlite_str(q), values |-> Sqlite_values(q)]
    IN IF q.append_returning # ""
       THEN <<pair,
              [sql |-> <<Token("SELECT "), Token(q.append_returning), Token(" FROM "),
                         Token(q.table),
                         Token(" WHERE rowid = last_insert_rowid()")>>,
               values |-> << >>]>>
       ELSE <<pair>>

\* Dict.__execute_query: the index, in the statements executed, of the one
\* fetchone() reads, or 0 when nothing is fetched
fetched_from(q) ==
    IF q.append_returning # "" THEN Len(Sqlite_build(q))
    ELSE IF q.returning # "" THEN 1 ELSE 0

\* No statement or Comparison
NoStatement == comparison(Column("", ""), None, "")

----------------------------------------------------------------------------
(* The engine's operations on tables and rows *)

Here == World(rows, nextid, dicts)

\* The fields of "last" beyond the world's: the operation, the Dict and the
\* key it was applied to, whether a flush found its Dict not yet persisted, and
\* whether a flush followed a flush of the same Dict that raised nothing
Idle == [op |-> "", d |-> 0, key |-> "", first |-> FALSE, raised |-> "",
         log |-> << >>, val |-> None, rg |-> 0, i |-> 0, out |-> << >>,
         fetches |-> 0, again |-> FALSE, a |-> << >>, kw |-> EmptyMap,
         stmt |-> NoStatement, sql |-> << >>, binds |-> << >>]

JustFlushed(d) == last.op = "flush" /\ last.d = d /\ last.raised = ""

Outcome(op, d, key, first, w) ==
    [Idle EXCEPT !.op = op, !.d = d, !.key = key, !.first = first,
                 !.raised = w.raised, !.log = w.log, !.val = w.val]

\* The world an engine call leaves becomes the state
Commit(w) ==
    /\ rows' = w.rows
    /\ nextid' = w.nextid
    /\ dicts' = w.dicts

\* Dict.__execute_query runs on self._curs, which is DictDB.curs: what the
\* shared cursor holds after the call's last statement and its fetchone.  A
\* call that sent no statement leaves the cursor as it was.
Executed(w) == IF w.log = << >> THEN dbcurs ELSE Drop(w.ret, 1)

\* The keyword arguments Table(**fields) is called with
PersonFields == {EmptyMap} \cup {[k \in {"id"} |-> i] : i \in Ids}

NoPkFields == {EmptyMap} \cup {[k \in {"foo"} |-> i] : i \in Ids}

Fields(t) == IF t = "person" THEN PersonFields ELSE NoPkFields

\* The same, and fields that name a column that is no primary key, or no
\* column of the table at all
Managed == [k \in {"manager_id"} |-> 1]

ExtraFields == {[k \in {ExtraKey} |-> 1], Managed}

MoreFields == PersonFields \cup ExtraFields

\* Table[name] = <a Comparison made in the same statement>
DeclareOn(t, name, c) ==
    /\ Len(comps) < MaxComps
    /\ LET st == TableSetItem([Decls EXCEPT !.comps = Append(@, c)], t, name,
                              Len(comps) + 1)
       IN /\ comps' = st.comps
          /\ fks' = st.fks
          /\ refs' = st.refs
    /\ last' = [Idle EXCEPT !.op = "declare", !.key = name]
    /\ UNCHANGED <<rows, nextid, dicts, queries, opers, rgs, dbcurs, db>>

\* Table[name] = c, for a Comparison object c that was made earlier
Install(t, name, c) ==
    /\ LET st == TableSetItem(Decls, t, name, c)
       IN /\ comps' = st.comps
          /\ fks' = st.fks
          /\ refs' = st.refs
    /\ last' = [Idle EXCEPT !.op = "install", !.key = name]
    /\ UNCHANGED <<rows, nextid, dicts, queries, opers, rgs, dbcurs, db>>

\* Person[name] = Person['manager_id'] == Person['id']
ManagerIsId == Comparison(Column("person", "manager_id"), Column("person", "id"), FALSE)

Declare(name) == DeclareOn("person", name, ManagerIsId)

\* d = Table(**fields)
Call(t, data) ==
    /\ Len(dicts) < MaxDicts
    /\ dicts' = Append(dicts, TableCall(t, data))
    /\ last' = [Idle EXCEPT !.op = "call", !.d = Len(dicts) + 1]
    /\ UNCHANGED <<rows, nextid, refs, fks, comps, queries, opers, rgs, dbcurs, db>>

\* d = Table(**{key: c}) for a Dict c made earlier
CallWith(t, key, c) ==
    /\ Len(dicts) < MaxRefDicts
    /\ dicts' = Append(dicts, TableCall(t, [k \in {key} |-> -c]))
    /\ last' = [Idle EXCEPT !.op = "call", !.d = Len(dicts) + 1]
    /\ UNCHANGED <<rows, nextid, refs, fks, comps, queries, opers, rgs, dbcurs, db>>

\* d.flush()
Flush(d) ==
    LET w == flush(Here, d, MaxDicts + 1)
    IN /\ Commit(w)
       /\ dbcurs' = Executed(w)
       /\ last' = [Outcome("flush", d, "", ~dicts[d].in_db, w) EXCEPT !.again = JustFlushed(d)]
       /\ UNCHANGED <<refs, fks, comps, queries, opers, rgs, db>>

\* d.delete()
Delete(d) ==
    LET w == delete(Here, d)
    IN /\ Commit(w)
       /\ dbcurs' = Executed(w)
       /\ last' = Outcome("delete", d, "", FALSE, w)
       /\ UNCHANGED <<refs, fks, comps, queries, opers, rgs, db>>

\* d[key] = value
SetItem(d, key, value) ==
    LET w == DictSetItem(Here, d, key, value)
    IN /\ Commit(w)
       /\ last' = Outcome("setitem", d, key, FALSE, w)
       /\ UNCHANGED <<refs, fks, comps, queries, opers, rgs, dbcurs, db>>

\* d[key]
GetItem(d, key) ==
    LET w == DictGetItem(Here, d, key)
    IN /\ Len(w.dicts) <= MaxRefDicts
       /\ Commit(w)
       /\ last' = Outcome("getitem", d, key, FALSE, w)
       /\ UNCHANGED <<refs, fks, comps, queries, opers, rgs, dbcurs, db>>

\* d.get(key, default)
Get(d, key, default) ==
    LET w == DictGet(Here, d, key, default)
    IN /\ Len(w.dicts) <= MaxRefDicts
       /\ Commit(w)
       /\ last' = Outcome("get", d, key, FALSE, w)
       /\ UNCHANGED <<refs, fks, comps, queries, opers, rgs, dbcurs, db>>

\* Table.get_one(**kw) and Table.get_one(value)
GetOne(t, a, kw) ==
    LET w == get_one(Here, t, a, kw)
    IN /\ Len(w.dicts) <= MaxDicts
       /\ Commit(w)
       /\ last' = Outcome("get_one", 0, "", FALSE, w)
       /\ UNCHANGED <<refs, fks, comps, queries, opers, rgs, dbcurs, db>>

Heap == HeapOf(queries, opers, rgs)

QueryOf(r) == QueryValue(Heap, rgs[r].query)

HeapCommit(h) ==
    /\ queries' = h.queries
    /\ opers' = h.opers
    /\ rgs' = h.rgs

\* What a call on a ResultsGenerator left in "last"
RgOutcome(op, r, raised, out, fetches) ==
    [Idle EXCEPT !.op = op, !.rg = r, !.raised = raised, !.out = out,
                 !.fetches = fetches]

\* A call that returns a new ResultsGenerator: val is its handle; key, a and
\* kw are the table and the arguments of a get_where or a refine
DerivedFrom(op, r, h, t, a, kw) ==
    /\ Len(rgs) < MaxRgs
    /\ HeapCommit(h)
    /\ last' = [Idle EXCEPT !.op = op, !.rg = r, !.raised = h.raised, !.val = h.new,
                            !.key = t, !.a = a, !.kw = kw]
    /\ UNCHANGED <<rows, nextid, refs, fks, comps, dicts, dbcurs, db>>

Derived(op, r, h) == DerivedFrom(op, r, h, "", << >>, EmptyMap)

\* The generator with what its cursor has yet to return: its own cursor's
\* rows, or the shared cursor's if that is the cursor it holds
Bound(r) ==
    IF rgs[r].curs = db_curs THEN [rgs[r] EXCEPT !.pending = dbcurs] ELSE rgs[r]

\* A call that advances one ResultsGenerator and the cursor it holds
Advanced(r, rg, o) ==
    /\ rgs' = [rgs EXCEPT ![r] = rg]
    /\ dbcurs' = IF rg.curs = db_curs THEN rg.pending ELSE dbcurs
    /\ last' = o
    /\ UNCHANGED <<rows, nextid, refs, fks, comps, dicts, queries, opers, db>>

\* rg = Table.get_where(*a, **kw)
GetWhere(t, a, kw) ==
    DerivedFrom("get_where", 0, table_get_where(Heap, t, a, kw), t, a, kw)

\* rg = Table.get_raw('SELECT * FROM "t"')
GetRaw(t) == DerivedFrom("get_raw", 0, table_get_raw(Heap, t), t, << >>, EmptyMap)

\* next(rg)
RgNext(r) ==
    LET n == next(Bound(r), QueryOf(r), rows)
    IN Advanced(r, n.rg, RgOutcome("next", r, IF n.out = << >> THEN "StopIteration" ELSE "",
                                   n.out, 1))

\* len(rg)
RgLen(r) ==
    LET n == len(Bound(r), QueryOf(r), rows)
    IN Advanced(r, n.rg, [RgOutcome("len", r, "", << >>, 0) EXCEPT !.val = n.val])

\* list(rg)
RgList(r) ==
    LET n == list(Bound(r), QueryOf(r), rows)
    IN Advanced(r, n.rg, RgOutcome("list", r, "", n.out, n.fetches))

\* rg[i]
RgGetItem(r, i) ==
    LET n == getitem(Bound(r), QueryOf(r), rows, i)
    IN Advanced(r, n.rg, [RgOutcome("getitem", r, n.raised, n.out, n.fetches) EXCEPT !.i = i])

\* rg.nocache(), rg.refine(*a, **kw), rg.order_by(..), rg.limit(n), rg.offset(n)
RgNoCache(r) == Derived("nocache", r, nocache(Heap, r))

RgRefine(r, a, kw) ==
    DerivedFrom("refine", r, refine(Heap, r, a, kw), rgs[r].table, a, kw)

RgOrderBy(r, ob) == Derived("order_by", r, order_by(Heap, r, ob))

RgLimit(r, n) == Derived("limit", r, limit(Heap, r, n))

RgOffset(r, n) == Derived("offset", r, offset(Heap, r, n))

\* d = next(rg), the caller keeping the Dict: __next__ makes it with
\* self.table(d) and marks it persisted
RgTake(r) ==
    LET n == next(Bound(r), QueryOf(r), rows)
        Kept == Fetched(rgs[r].table, n.out[1])
    IN /\ Len(dicts) < MaxDicts
       /\ n.out # << >>
       /\ rgs' = [rgs EXCEPT ![r] = n.rg]
       /\ dbcurs' = IF n.rg.curs = db_curs THEN n.rg.pending ELSE dbcurs
       /\ dicts' = Append(dicts, Kept)
       /\ last' = [RgOutcome("next", r, "", n.out, 1) EXCEPT !.val = -(Len(dicts) + 1)]
       /\ UNCHANGED <<rows, nextid, refs, fks, comps, queries, opers, db>>

\* Table.count(): SELECT COUNT(*) on Table.curs, which is DictDB.curs, and
\* fetchone of its one row
Count(t) ==
    /\ dbcurs' = << >>
    /\ last' = [Idle EXCEPT !.op = "count", !.val = Len(rows[t]),
                            !.log = <<Stmt("SELECT COUNT", t)>>]
    /\ UNCHANGED <<rows, nextid, refs, fks, comps, dicts, queries, opers, rgs, db>>

\* CREATE TABLE name and DROP TABLE name, sent by anyone
CreateTable(name) ==
    /\ name \notin db.catalog
    /\ db' = [db EXCEPT !.catalog = @ \cup {name}]
    /\ last' = [Idle EXCEPT !.op = "create_table", !.key = name]
    /\ UNCHANGED <<rows, nextid, refs, fks, comps, dicts, queries, opers, rgs, dbcurs>>

DropTable(name) ==
    /\ name \in db.catalog
    /\ db' = [db EXCEPT !.catalog = @ \ {name}]
    /\ last' = [Idle EXCEPT !.op = "drop_table", !.key = name]
    /\ UNCHANGED <<rows, nextid, refs, fks, comps, dicts, queries, opers, rgs, dbcurs>>

\* db[name][ref_name] = <a Comparison>, as far as the registry is concerned
DeclareRef(name, ref_name) ==
    /\ name \in DOMAIN db.keys
    /\ db' = [db EXCEPT !.objs[db.keys[name]].refs = @ \cup {ref_name}]
    /\ last' = [Idle EXCEPT !.op = "declare", !.key = ref_name]
    /\ UNCHANGED <<rows, nextid, refs, fks, comps, dicts, queries, opers, rgs, dbcurs>>

\* db.refresh_tables()
RefreshTables ==
    /\ Len(db.objs) + Cardinality(db.catalog) <= MaxTables
    /\ db' = refresh_tables(db)
    /\ last' = [Idle EXCEPT !.op = "refresh_tables"]
    /\ UNCHANGED <<rows, nextid, refs, fks, comps, dicts, queries, opers, rgs, dbcurs>>

\* with db.transaction(commit): <a body that raises "body", or completes>
Transaction(commit, body) ==
    LET x == transaction(db, commit, body)
    IN /\ db.conn.commits + db.conn.rollbacks < MaxTx
       /\ db' = x.db
       /\ last' = [Idle EXCEPT !.op = "transaction", !.key = body, !.raised = x.raised]
       /\ UNCHANGED <<rows, nextid, refs, fks, comps, dicts, queries, opers, rgs, dbcurs>>

\* The arguments the read entry points are called with
PersonArgs ==
    {<<<< >>, EmptyMap>>, <<<< >>, Managed>>} \cup {<<<<Plain(i)>>, EmptyMap>> : i \in Ids}

\* The person table the engine may be constructed on: rows 1..n as the SERIAL
\* sequence numbered them, none with a manager
InitPersons == {[i \in 1 .. n |-> [id |-> i, manager_id |-> None]] : n \in 0 .. MaxInit}

Init ==
    /\ \E ps \in InitPersons :
          /\ rows = [t \in Tables |-> IF t = "person" THEN ps ELSE << >>]
          /\ nextid = Len(ps) + 1
    /\ refs = [t \in Tables |-> EmptyMap]
    /\ fks = [t \in Tables |-> EmptyMap]
    /\ comps = << >>
    /\ dicts = << >>
    /\ queries = << >>
    /\ opers = << >>
    /\ rgs = << >>
    /\ dbcurs = << >>
    /\ db = DictDB(Tables)
    /\ last = Idle

\* Rows of person: created, read, changed and flushed
Next ==
    \/ \E data \in Fields("person") : Call("person", data)
    \/ \E d \in DOMAIN dicts : Flush(d)
    \/ \E d \in DOMAIN dicts : SetItem(d, "id", MaxId)
    \/ \E d \in DOMAIN dicts : SetItem(d, "manager_id", 1)
    \/ \E x \in PersonArgs : GetOne("person", x[1], x[2])

Spec == Init /\ [][Next]_vars

\* Rows of person created with fields of every kind, changed, flushed and
\* deleted
NextTrip ==
    \/ \E data \in MoreFields : Call("person", data)
    \/ \E d \in DOMAIN dicts : Flush(d)
    \/ \E d \in DOMAIN dicts : Delete(d)
    \/ \E d \in DOMAIN dicts : \E key \in {"manager_id", ExtraKey} : SetItem(d, key, 1)

SpecTrip == Init /\ [][NextTrip]_vars

\* The table no_pk the engine may be constructed on
InitNoPk ==
    UNION {[1 .. n -> {[foo |-> i] : i \in Ids}] : n \in 0 .. MaxInit}

BlankHeap ==
    /\ nextid = 1
    /\ refs = [t \in Tables |-> EmptyMap]
    /\ fks = [t \in Tables |-> EmptyMap]
    /\ comps = << >>
    /\ dicts = << >>
    /\ queries = << >>
    /\ opers = << >>
    /\ rgs = << >>
    /\ dbcurs = << >>
    /\ db = DictDB(Tables)

Blank ==
    /\ BlankHeap
    /\ last = Idle

InitNoPkTable ==
    /\ \E ns \in InitNoPk : rows = [t \in Tables |-> IF t = "no_pk" THEN ns ELSE << >>]
    /\ Blank

\* Rows of no_pk: created, read, changed, flushed and deleted
NextNoPk ==
    \/ \E data \in Fields("no_pk") : Call("no_pk", data)
    \/ \E d \in DOMAIN dicts : Flush(d)
    \/ \E d \in DOMAIN dicts : Delete(d)
    \/ \E d \in DOMAIN dicts : \E v \in Ids : SetItem(d, "foo", v)
    \/ \E a \in ById : GetWhere("no_pk", a, EmptyMap)
    \/ \E kw \in NoPkFields : GetOne("no_pk", << >>, kw)

SpecNoPk == InitNoPkTable /\ [][NextNoPk]_vars

\* References of person to person on manager_id, declared and resolved
\* The keys d.get is called with: a reference name, a column, an unknown key
GetKeys == {"manager", "manager_id", ExtraKey}

NextRef ==
    \/ \E name \in RefNames : Declare(name)
    \/ Call("person", Managed)
    \/ \E d \in DOMAIN dicts : \E v \in Ids : SetItem(d, "manager_id", v)
    \/ \E d \in DOMAIN dicts : \E name \in RefNames : GetItem(d, name)
    \/ \E d \in DOMAIN dicts : \E key \in GetKeys : Get(d, key, MaxId)
    \/ \E d \in DOMAIN dicts : Flush(d)

SpecRef == Init /\ [][NextRef]_vars

\* d[key] for a reference name, on a Dict Person(**data) that is not flushed
ReadReference(data, key) ==
    LET self == TableCall("person", data).data
        r == Dict_getitem(rows, "person", self, key, MaxDepth)
    IN /\ last' = [Idle EXCEPT !.op = "getitem", !.key = key, !.kw = self,
                               !.raised = r.raised, !.out = <<r.val>>]
       /\ UNCHANGED <<rows, nextid, refs, fks, comps, dicts, queries, opers, rgs,
                      dbcurs, db>>

\* Person['subordinates'] = Person['id'].many(Person['manager_id']), the rows
\* that have the same manager, and the peers of the subordinates as one list
\* and as a list of lists
Subordinates == Comparison(Column("person", "id"), Column("person", "manager_id"), TRUE)

Peers == Comparison(Column("person", "manager_id"), Column("person", "manager_id"), TRUE)

Declarations ==
    <<<<"subordinates", Subordinates>>,
      <<"peers", Peers>>,
      <<"subordinates_peers", Comparison_aggregate(Subordinates, "peers")>>,
      <<"subordinates_lists", Comparison_substratum(Subordinates, "peers")>>>>

\* Person[name] = ref for each declaration, in order
RECURSIVE Declared(_, _)
Declared(st, n) ==
    IF n = 0 THEN st
    ELSE LET before == Declared(st, n - 1)
         IN TableSetItem([before EXCEPT !.comps = Append(@, Declarations[n][2])],
                         "person", Declarations[n][1], Len(before.comps) + 1)

\* person rows 1..n, each managed by nobody or by a row
People ==
    UNION {[1 .. n -> {[id |-> i, manager_id |-> m] : i \in 1 .. n, m \in {None} \cup 1 .. n}]
              : n \in 0 .. MaxPeople}

InitAggregate ==
    /\ \E ps \in {x \in People : \A i \in DOMAIN x : x[i].id = i} :
          rows = [t \in Tables |-> IF t = "person" THEN ps ELSE << >>]
    /\ nextid = Len(rows["person"]) + 1
    /\ LET st == Declared([comps |-> << >>, fks |-> [t \in Tables |-> EmptyMap],
                           refs |-> [t \in Tables |-> EmptyMap]], Len(Declarations))
       IN comps = st.comps /\ fks = st.fks /\ refs = st.refs
    /\ dicts = << >>
    /\ queries = << >>
    /\ opers = << >>
    /\ rgs = << >>
    /\ dbcurs = << >>
    /\ db = DictDB(Tables)
    /\ last = Idle

\* References are read; the tables do not change
Readers ==
    {[id |-> i, manager_id |-> m] : i \in 1 .. MaxPeople, m \in {None} \cup 1 .. MaxPeople}

NextAggregate ==
    \E data \in Readers : \E n \in 1 .. Len(Declarations) :
        ReadReference(data, Declarations[n][1])

SpecAggregate == InitAggregate /\ [][NextAggregate]_vars

----------------------------------------------------------------------------
(* async.py: flush as a coroutine on the one connection *)

\* Dict._get_db_items: the entries that are not references
get_db_items(self) == no_refs(self)

\* async Dict.flush up to its await of __execute_query: the statement built.
\* Table.init() has awaited columns_info, so column_names suspends nowhere.
flush_query(self, d) ==
    LET items == Restrict(get_db_items(self), column_names(self.table))
    IN [d |-> d, kind |-> IF ~self.in_db THEN "INSERT" ELSE "UPDATE", items |-> items,
        where |-> WherePk(self), done |-> FALSE, ret |-> << >>, raised |-> ""]

\* What an awaited fetchrow gives if it reads the row the connection returned
\* last, whichever statement that was for
fetchrow_latest(conn, d, latest) == latest

\* What the awaited self._curs.fetchrow(sql, *values) gives the coroutine that
\* called it: the first row of its own statement
fetchrow(conn, d, latest) ==
    conn[CHOOSE i \in DOMAIN conn : conn[i].d = d].ret

\* The coroutine of d.flush() is suspended in its await
Awaiting(d) == \E i \in DOMAIN dbcurs : dbcurs[i].d = d

\* d.flush() is called: it runs to its await, where the statement is handed to
\* the connection.  last counts the calls and keeps the statements executed so
\* far and the row returned last.
FlushCalled(d) ==
    /\ ~Awaiting(d)
    /\ last.fetches < MaxCalls
    /\ IF dicts[d].in_db /\ pks(dicts[d].table) = << >>
       THEN /\ last' = [last EXCEPT !.op = "flush", !.d = d, !.raised = "NoPrimaryKey"]
            /\ UNCHANGED dbcurs
       ELSE /\ dbcurs' = Append(dbcurs, flush_query(dicts[d], d))
            /\ last' = [last EXCEPT !.op = "flush", !.d = d, !.raised = "",
                                    !.fetches = @ + 1]
    /\ UNCHANGED <<rows, nextid, refs, fks, comps, dicts, queries, opers, rgs, db>>

\* The connection executes the statement it was handed first
Served ==
    /\ \E i \in DOMAIN dbcurs : ~dbcurs[i].done
    /\ LET i == CHOOSE j \in DOMAIN dbcurs :
                    ~dbcurs[j].done /\ \A k \in 1 .. j - 1 : dbcurs[k].done
           q == dbcurs[i]
           t == dicts[q.d].table
           w == IF q.kind = "INSERT" THEN ExecInsert(Here, t, q.items)
                ELSE ExecUpdate(Here, t, q.items, q.where)
       IN /\ rows' = w.rows
          /\ nextid' = w.nextid
          /\ dbcurs' = [dbcurs EXCEPT ![i] = [q EXCEPT !.done = TRUE, !.ret = Take(w.ret, 1),
                                                       !.raised = w.raised]]
          /\ last' = [last EXCEPT !.op = "served", !.d = q.d,
                                  !.log = Append(@, [kind |-> q.kind, d |-> q.d,
                                                     ret |-> Take(w.ret, 1)]),
                                  !.out = Take(w.ret, 1)]
    /\ UNCHANGED <<refs, fks, comps, dicts, queries, opers, rgs, db>>

\* The coroutine of d.flush() resumes with the result of its await and runs to
\* its end
FlushResumed(d) ==
    /\ \E i \in DOMAIN dbcurs : dbcurs[i].d = d /\ dbcurs[i].done
    /\ LET i == CHOOSE j \in DOMAIN dbcurs : dbcurs[j].d = d
           q == dbcurs[i]
           w == [Here EXCEPT !.ret = fetchrow(dbcurs, d, last.out), !.raised = q.raised]
           w1 == IF w.raised # "" THEN w ELSE FlushTail(w, d, TRUE)
       IN /\ dicts' = w1.dicts
          /\ dbcurs' = SelectSeq(dbcurs, LAMBDA x : x.d # d)
          /\ last' = [last EXCEPT !.op = "resumed", !.d = d, !.raised = w.raised]
    /\ UNCHANGED <<rows, nextid, refs, fks, comps, queries, opers, rgs, db>>

\* The entries of the Dicts made before their flush() calls are gathered
TaskFields == {EmptyMap, Managed, [k \in {"manager_id"} |-> MaxId]}

InitAsync ==
    /\ rows = [t \in Tables |-> << >>]
    /\ nextid = 1
    /\ refs = [t \in Tables |-> EmptyMap]
    /\ fks = [t \in Tables |-> EmptyMap]
    /\ comps = << >>
    /\ queries = << >>
    /\ opers = << >>
    /\ rgs = << >>
    /\ dbcurs = << >>
    /\ db = DictDB(Tables)
    /\ \E ds \in UNION {[1 .. n -> TaskFields] : n \in 1 .. MaxTasks} :
          dicts = [i \in DOMAIN ds |-> TableCall("person", ds[i])]
    /\ last = Idle

\* flush() of every Dict, called and resumed in any order
NextAsync ==
    \/ \E d \in DOMAIN dicts : FlushCalled(d)
    \/ Served
    \/ \E d \in DOMAIN dicts : FlushResumed(d)

SpecAsync == InitAsync /\ [][NextAsync]_vars

\* The comparisons references are declared with
Comparisons ==
    {ManagerIsId,
     Comparison(Column("person", "id"), Column("person", "manager_id"), TRUE),
     Comparison(Column("no_pk", "foo"), Column("person", "id"), FALSE),
     Comparison(Column("person", "id"), Column("no_pk", "foo"), FALSE)}

\* A comparison may be installed on a table one of its columns belongs to
Owns(t, c) == c.column1.table = t \/ c.column2.table = t

InitDecl ==
    /\ rows = [t \in Tables |-> << >>]
    /\ Blank

\* Reference declarations only
NextDecl ==
    \/ \E t \in Tables : \E name \in RefNames : \E c \in Comparisons :
          Owns(t, c) /\ DeclareOn(t, name, c)
    \/ \E t \in Tables : \E name \in RefNames : \E c \in DOMAIN comps :
          Owns(t, comps[c]) /\ Install(t, name, c)

SpecDecl == InitDecl /\ [][NextDecl]_vars

\* The person table ResultsGenerators are exercised on: rows 1..n, the first
\* without a manager, the others managed by the first
RgPersons ==
    {[i \in 1 .. n |-> [id |-> i, manager_id |-> IF i = 1 THEN None ELSE 1]] :
        n \in 0 .. MaxRows}

InitRG ==
    /\ \E ps \in RgPersons : rows = [t \in Tables |-> IF t = "person" THEN ps ELSE << >>]
    /\ Blank

\* The arguments of get_where and refine
RgArgs ==
    {<<<< >>, EmptyMap>>, <<<<Plain(1)>>, EmptyMap>>, <<<< >>, Managed>>}

\* ResultsGenerators made and consumed, with and without their cache; the
\* tables do not change
NextRG ==
    \/ Len(rgs) < MaxGens /\ \E x \in RgArgs : GetWhere("person", x[1], x[2])
    \/ \E r \in DOMAIN rgs : RgNext(r)
    \/ \E r \in DOMAIN rgs : RgLen(r)
    \/ \E r \in DOMAIN rgs : RgList(r)
    \/ \E r \in DOMAIN rgs : \E i \in -1 .. MaxRows : RgGetItem(r, i)
    \/ \E r \in DOMAIN rgs : RgNoCache(r)

SpecRG == InitRG /\ [][NextRG]_vars

\* ResultsGenerators made, derived from one another and iterated
NextDerive ==
    \/ \E x \in RgArgs : GetWhere("person", x[1], x[2])
    \/ \E r \in DOMAIN rgs : RgNext(r)
    \/ \E r \in DOMAIN rgs : RgList(r)
    \/ \E r \in DOMAIN rgs : RgNoCache(r)
    \/ \E r \in DOMAIN rgs : \E x \in RgArgs : RgRefine(r, x[1], x[2])
    \/ \E r \in DOMAIN rgs : RgOrderBy(r, "id DESC")
    \/ \E r \in DOMAIN rgs : \E n \in 0 .. MaxLimit : RgLimit(r, n)
    \/ \E r \in DOMAIN rgs : \E n \in 0 .. MaxLimit : RgOffset(r, n)

SpecDerive == InitRG /\ [][NextDerive]_vars

\* A Comparison given as a positional argument
ManagerIsOne == Comp(Eq(Column("person", "manager_id"), 1))

\* The positional arguments of one call: the i-th is the plain value i or a
\* Comparison
ArgLists ==
    UNION {{a \in [1 .. n -> {Plain(i) : i \in 1 .. MaxArgs} \cup {ManagerIsOne}] :
              \A i \in 1 .. n : a[i].plain => a[i].value = i} : n \in 0 .. MaxArgs}

\* The tables queries are built for: one and two primary keys
ArgTables == {"person", JoinTable}

\* The positional and keyword arguments of one call
ArgCalls == {<<a, EmptyMap>> : a \in ArgLists} \cup {<<<<Plain(1)>>, Managed>>}

\* One query built by get_where, then refined; nothing is iterated
NextArgs ==
    \/ rgs = << >> /\ \E t \in ArgTables : \E x \in ArgCalls : GetWhere(t, x[1], x[2])
    \/ \E r \in DOMAIN rgs : \E x \in ArgCalls : RgRefine(r, x[1], x[2])

SpecArgs == InitRG /\ [][NextArgs]_vars

\* Rows of person read through ResultsGenerators and get_one while the Dicts
\* read are changed, flushed and deleted and the table is counted on the
\* shared cursor
NextCursor ==
    \/ Len(rgs) < MaxGens /\ GetWhere("person", << >>, EmptyMap)
    \/ \E r \in DOMAIN rgs : RgNext(r)
    \/ \E r \in DOMAIN rgs : RgTake(r)
    \/ GetOne("person", ByMaxId, EmptyMap)
    \/ \E d \in DOMAIN dicts : SetItem(d, "manager_id", MaxId)
    \/ \E d \in DOMAIN dicts : Flush(d)
    \/ \E d \in DOMAIN dicts : Delete(d)
    \/ Count("person")

SpecCursor == InitRG /\ [][NextCursor]_vars

\* Dicts of both tables created, read, changed and flushed
NextBoth ==
    \/ \E t \in Tables : \E data \in Fields(t) : Call(t, data)
    \/ GetOne("person", ByFirstId, EmptyMap)
    \/ \E d \in DOMAIN dicts : \E key \in {"id", "foo"} : SetItem(d, key, MaxId)
    \/ \E d \in DOMAIN dicts : Flush(d)

SpecBoth == Init /\ [][NextBoth]_vars

\* Tables created and dropped, references declared, the registry refreshed
NextRegistry ==
    \/ \E name \in TableNames : CreateTable(name)
    \/ \E name \in TableNames : DropTable(name)
    \/ \E name \in TableNames : DeclareRef(name, "manager")
    \/ RefreshTables

SpecRegistry == InitDecl /\ [][NextRegistry]_vars

\* Dicts that hold Dicts, as a cached reference or under a key of their own,
\* before and after a reference is declared on the table
NextCascade ==
    \/ Declare("manager")
    \/ Call("person", EmptyMap)
    \/ \E c \in DOMAIN dicts : CallWith("person", ExtraKey, c)
    \/ \E d \in DOMAIN dicts : SetItem(d, "manager_id", 1)
    \/ \E d \in DOMAIN dicts : GetItem(d, "manager")
    \/ \E d \in DOMAIN dicts : Flush(d)

SpecCascade == InitDecl /\ [][NextCascade]_vars

\* Person[name] = Person['extra'] == Person['id']: Table.__getitem__ makes a
\* Column for any name
ExtraIsId == Comparison(Column("person", ExtraKey), Column("person", "id"), FALSE)

\* References on a column and on a name that is no column; Dicts that hold
\* either, read their reference and are assigned to
NextSetItem ==
    \/ \E c \in {ManagerIsId, ExtraIsId} : DeclareOn("person", "manager", c)
    \/ \E data \in ExtraFields : Call("person", data)
    \/ \E d \in DOMAIN dicts : Flush(d)
    \/ \E d \in DOMAIN dicts : GetItem(d, "manager")
    \/ \E d \in DOMAIN dicts : \E key \in {"manager_id", ExtraKey} : SetItem(d, key, MaxId)

SpecSetItem == Init /\ [][NextSetItem]_vars

\* Dicts that are assigned Dicts, themselves included, and flushed.  The
\* heap holds no more Dicts than the fuel of Flush, so a flush runs out of
\* fuel only on a cycle.
NextCycle ==
    \/ Declare("manager")
    \/ Call("person", EmptyMap)
    \/ \E c \in DOMAIN dicts : Len(dicts) <= MaxDicts /\ CallWith("person", ExtraKey, c)
    \/ \E d, c \in DOMAIN dicts : SetItem(d, "manager", -c)
    \/ \E d \in DOMAIN dicts : SetItem(d, "manager_id", 1)
    \/ \E d \in DOMAIN dicts : Flush(d)

SpecCycle == InitDecl /\ [][NextCycle]_vars

\* Every entry point of the engine on one connection, whose work is not
\* committed; at most one transaction() block
NextConn ==
    \/ Call("person", EmptyMap)
    \/ \E d \in DOMAIN dicts : Flush(d)
    \/ \E d \in DOMAIN dicts : Delete(d)
    \/ GetOne("person", ByFirstId, EmptyMap)
    \/ rgs = << >> /\ GetWhere("person", << >>, EmptyMap)
    \/ rgs = << >> /\ GetRaw("person")
    \/ \E r \in DOMAIN rgs : RgNext(r)
    \/ \E r \in DOMAIN rgs : RgList(r)
    \/ Count("person")
    \/ RefreshTables
    \/ /\ db.conn = DictDB(Tables).conn
       /\ \E commit \in BOOLEAN : \E body \in Raisable : Transaction(commit, body)

SpecConn == InitDecl /\ [][NextConn]_vars

\* Transactions with and without commit, around bodies of every outcome
NextTx == \E commit \in BOOLEAN : \E body \in Raisable : Transaction(commit, body)

SpecTx == InitDecl /\ [][NextTx]_vars

\* str(table[column].method(v)) on a database of the given kind
Str(kind, c, m, v) ==
    LET r == Column_method(kind, c, m, v)
    IN /\ last' = [Idle EXCEPT !.op = "str", !.key = kind, !.raised = r.raised,
                               !.stmt = r.comp,
                               !.sql = IF r.raised # "" THEN << >>
                                       ELSE Dialect_str(kind, r.comp)]
       /\ UNCHANGED <<rows, nextid, refs, fks, comps, dicts, queries, opers, rgs,
                      dbcurs, db>>

\* q.build() of a statement
Build(q) ==
    LET b == build(q)
    IN /\ last' = [Idle EXCEPT !.op = "build", !.key = q.class, !.stmt = q,
                               !.sql = b.sql, !.binds = b.values]
       /\ UNCHANGED <<rows, nextid, refs, fks, comps, dicts, queries, opers, rgs,
                      dbcurs, db>>

\* Dict.__execute_query on a statement of the sqlite dialect: what build()
\* gives, the statements executed in order, and the one the row is fetched from
ExecuteQuery(q) ==
    LET built == Sqlite_build(q)
    IN /\ last' = [Idle EXCEPT !.op = "execute_query", !.key = q.class, !.stmt = q,
                               !.out = built, !.log = built, !.i = fetched_from(q)]
       /\ UNCHANGED <<rows, nextid, refs, fks, comps, dicts, queries, opers, rgs,
                      dbcurs, db>>

\* The Comparisons predicates are made of
Leaves ==
    {comparison(Column("person", "id"), 1, "="),
     comparison(Column("person", "name"), MaxId, ">="),
     comparison(Column("person", "name"), Null, " IS NULL")}

OperatorKinds == {"AND", "OR"}

\* Operators over Comparisons
Flat == {Operator(k, cs) : k \in OperatorKinds,
                           cs \in UNION {[1 .. n -> Leaves] : n \in 0 .. MaxKids}}

\* Operators over an Operator, with a Comparison before or after it
Nested ==
    {Operator(k, cs) : k \in OperatorKinds,
                       cs \in UNION {{<<f>>} \cup {<<l, f>> : l \in Leaves}
                                           \cup {<<f, l>> : l \in Leaves} : f \in Flat}}

\* No predicate, or one
Wheres == {<< >>} \cup {<<p>> : p \in Leaves \cup Flat \cup Nested}

\* The keyword values of Insert and Update
SetValues ==
    {<< >>, <<<<"name", 1>>>>, <<<<"name", 1>>, <<"id", MaxId>>>>,
     <<<<"id", MaxId>>, <<"name", 1>>>>}

Selects ==
    {Statement("Select", "person", << >>, w, "", "", None, None) : w \in Wheres}
      \cup {Statement("Select", "person", << >>, w, "*", "id ASC", 1, 1) : w \in Wheres}

Inserts ==
    {Statement("Insert", "person", vs, << >>, r, "", None, None) :
        vs \in SetValues, r \in {"", "*", "id"}}

Updates ==
    {Statement("Update", "person", vs, w, r, "", None, None) :
        vs \in SetValues \ {<< >>}, w \in Wheres, r \in {"", "id"}}

Deletes ==
    {Statement("Delete", "person", << >>, w, "", "", None, None) : w \in Wheres}

\* The columns Comparisons are built on
BuildColumns == {Column(t, c) : t \in {"person", "car"}, c \in {"id", "name"}}

\* A call of a Column method that is yet to be made
MethodCall(kind, c, m, v) == [kind |-> kind, column |-> c, method |-> m, value |-> v]

MethodCalls ==
    {MethodCall(kind, c, m, v) : kind \in DBKinds, c \in BuildColumns, m \in Methods,
                                 v \in Ids}

\* The Expressions of the sqlite dialect, which has no null tests
Expressions == {l \in Leaves : l.column2 # Null}

\* No predicate, or one over Expressions
SqliteWheres ==
    LET Logicals == {Operator(k, cs) :
                        k \in OperatorKinds,
                        cs \in UNION {[1 .. n -> Expressions] : n \in 0 .. MaxKids}}
        Over == {Operator(k, <<l, f>>) : k \in OperatorKinds, l \in Expressions,
                                         f \in Logicals}
    IN {<< >>} \cup {<<p>> : p \in Expressions \cup Logicals \cup Over}

ReturningSpecs == {"", "*", "id"}

SqliteUpdates ==
    {Sqlite_returning(SqliteStatement("SqliteUpdate", "person", vs, w), r) :
        vs \in SetValues \ {<< >>}, w \in SqliteWheres, r \in ReturningSpecs}

SqliteInserts ==
    {Sqlite_returning(SqliteStatement("SqliteInsert", "person", vs, << >>), r) :
        vs \in SetValues, r \in ReturningSpecs}

\* One Column method call to make and render, or one statement to build, is
\* given with the initial state
InitBuild ==
    /\ rows = [t \in Tables |-> << >>]
    /\ BlankHeap
    /\ \E x \in MethodCalls \cup Selects \cup Inserts \cup Updates \cup Deletes
                   \cup SqliteUpdates \cup SqliteInserts :
          last = [Idle EXCEPT !.stmt = x]

\* The call or the statement given
Given(class) ==
    /\ last.op = ""
    /\ IF class = "" THEN "method" \in DOMAIN last.stmt
       ELSE "class" \in DOMAIN last.stmt /\ last.stmt.class = class

\* Comparisons and statements rendered; nothing is executed
NextBuild ==
    \/ /\ Given("")
       /\ Str(last.stmt.kind, last.stmt.column, last.stmt.method, last.stmt.value)
    \/ Given("Select") /\ Build(last.stmt)
    \/ Given("Insert") /\ Build(last.stmt)
    \/ Given("Update") /\ Build(last.stmt)
    \/ Given("Delete") /\ Build(last.stmt)
    \/ Given("SqliteUpdate") /\ ExecuteQuery(last.stmt)
    \/ Given("SqliteInsert") /\ ExecuteQuery(last.stmt)

SpecBuild == InitBuild /\ [][NextBuild]_vars

----------------------------------------------------------------------------
(* pgpydict.py: the legacy PgPyTable *)

\* The tables of a legacy schema are numbered 1 .. MaxSchema.  A foreign-key
\* constraint <<t, r>> is the column of t that references the primary key of
\* r; the column is named after r.
Schema == 1 .. MaxSchema

Constraints == Schema \X Schema

\* PgPyTable._get_references: the rows the constraint query returns for the
\* table, as curs.fetchall() lists them
get_references(fkeys, table) ==
    SelectSeq([r \in Schema |-> r], LAMBDA r : <<table, r>> \in fkeys)

\* The nesting of PgPyTable.__init__ calls at which the interpreter gives up.
\* One construction and the constructions nested in it are of distinct tables
\* until one is repeated, bar the original table met once more, so a nesting
\* this deep goes on for ever.
RecursionLimit == MaxSchema + 1

\* PgPyTable.addReference: ref_info gets the referenced table's object under
\* the referencing column
addReference(self, pgpytable, ref_column) ==
    [self EXCEPT !.ref_info = Merge(@, [k \in {ref_column} |-> pgpytable])]

\* The loop of __init__: "if _original_table == self.table: continue"
references_skipped(self, reference, original) ==
    original = self.table

RECURSIVE PgPyTable(_, _, _, _, _)

RECURSIVE auto_references(_, _, _, _, _)

\* The body of "for reference in self._get_references()": a PgPyTable is
\* constructed for the referenced table, with the original table handed down,
\* and added as a reference; an exception of the nested construction ends it
auto_references(fkeys, self, fetched, original, depth) ==
    IF fetched = << >> THEN self
    ELSE IF references_skipped(self, Head(fetched), original)
    THEN auto_references(fkeys, self, Tail(fetched), original, depth)
    ELSE LET table == PgPyTable(fkeys, Head(fetched), TRUE,
                                IF original # None THEN original ELSE self.table,
                                depth + 1)
         IN IF table.raised # "" THEN [self EXCEPT !.raised = table.raised]
            ELSE auto_references(fkeys, addReference(self, table, Head(fetched)),
                                 Tail(fetched), original, depth)

\* PgPyTable.__init__(table, curs, auto_reference=.., _original_table=..): the
\* object made, or the exception raised
PgPyTable(fkeys, table, auto_reference, original, depth) ==
    LET self == [table |-> table, ref_info |-> EmptyMap, raised |-> ""]
    IN IF depth > RecursionLimit THEN [self EXCEPT !.raised = "RecursionError"]
       ELSE IF auto_reference
       THEN auto_references(fkeys, self, get_references(fkeys, table), original, depth)
       ELSE self

\* PgPyTable(table, curs, auto_reference=..) called on the schema
Construct(table, auto_reference) ==
    LET made == PgPyTable(db.constraints, table, auto_reference, None, 1)
    IN /\ last' = [Idle EXCEPT !.op = "PgPyTable", !.d = table,
                               !.first = auto_reference, !.raised = made.raised,
                               !.out = <<made>>]
       /\ UNCHANGED <<rows, nextid, refs, fks, comps, dicts, queries, opers, rgs,
                      dbcurs, db>>

\* A database with any foreign-key constraints among its tables
InitSchema ==
    /\ rows = [t \in Tables |-> << >>]
    /\ nextid = 1
    /\ refs = [t \in Tables |-> EmptyMap]
    /\ fks = [t \in Tables |-> EmptyMap]
    /\ comps = << >>
    /\ dicts = << >>
    /\ queries = << >>
    /\ opers = << >>
    /\ rgs = << >>
    /\ dbcurs = << >>
    /\ \E fkeys \in SUBSET Constraints : db = [constraints |-> fkeys]
    /\ last = Idle

NextSchema ==
    \E table \in Schema : \E auto_reference \in BOOLEAN : Construct(table, auto_reference)

SpecSchema == InitSchema /\ [][NextSchema]_vars

----------------------------------------------------------------------------
(* Claims about rows of person *)

\* The rows of person a get_one call's arguments select: the positional value
\* is the id, a keyword names a column and its value
Selected(x) ==
    {i \in DOMAIN rows["person"] :
        /\ x[1] # << >> => rows["person"][i].id = x[1][1].value
        /\ \A k \in DOMAIN x[2] : rows["person"][i][k] = x[2][k]}

\* C1: Table.get_one returns None when the filter matches no row, the single
\* matching row as a persisted Dict when it matches exactly one, and raises
\* UnexpectedRows, returning no row, when it matches two or more.
C1_GetOne ==
    [][\A x \in PersonArgs :
          (last'.op = "get_one" /\ GetOne("person", x[1], x[2])) =>
             LET n == Cardinality(Selected(x))
             IN /\ n = 0 => last'.raised = "" /\ last'.val = None /\ dicts' = dicts
                /\ n = 1 => /\ last'.raised = ""
                            /\ IsDict(last'.val)
                            /\ -last'.val = Len(dicts) + 1
                            /\ dicts'[-last'.val].in_db
                            /\ \E i \in Selected(x) :
                                  Restrict(dicts'[-last'.val].data, column_names("person"))
                                     = rows["person"][i]
                /\ n >= 2 => /\ last'.raised = "UnexpectedRows"
                             /\ last'.val = None
                             /\ dicts' = dicts]_vars

\* A get_one whose filter matched two rows raised UnexpectedRows
C1_Witness ==
    /\ last.op = "get_one"
    /\ last.raised = "UnexpectedRows"
    /\ Len(rows["person"]) >= 2

\* The rows of a table that have the given primary-key values
RowsWithPk(rs, pk) == {i \in DOMAIN rs : \A k \in DOMAIN pk : rs[i][k] = pk[k]}

\* C3: flush() on a persisted Dict (flushed before, or returned by a read and
\* never flushed) whose primary key was changed in memory updates the row that
\* has the primary-key values the Dict was read or last flushed with: that row
\* takes the Dict's key and values, every other row and the number of rows
\* stay as they were.
C3_FlushChangedPk ==
    [][\A d \in DOMAIN dicts :
          LET self == dicts[d]
              old == RowsWithPk(rows["person"], self.row_pk)
              sent == Restrict(self.data, column_names("person"))
          IN (/\ last'.op = "flush"
              /\ Flush(d)
              /\ self.table = "person"
              /\ self.in_db
              /\ Restrict(self.data, PkSet("person")) # self.row_pk
              /\ old # {}
              /\ last'.raised = "")
             => /\ Len(rows'["person"]) = Len(rows["person"])
                /\ {rows'["person"][i] : i \in DOMAIN rows'["person"]}
                     = {IF i \in old THEN Merge(rows["person"][i], sent)
                                     ELSE rows["person"][i] : i \in DOMAIN rows["person"]}]_vars

----------------------------------------------------------------------------
(* Claims about the round trip *)

\* list(Table.get_where(*a, **kw)) on the tables as they are
ListWhere(t, a, kw) ==
    LET Made(g) == list(ResultsGenerator(t, 0, g.query), g.query, rows).out
    IN Made(get_where(t, a, kw))

\* The last call was the first flush of a Dict, and it succeeded
Flushed == last.op = "flush" /\ last.first /\ last.raised = ""

\* The flushed Dict can be read back by its key and the read gives it alone
ReadBack ==
    LET row == dicts[last.d].data
    IN /\ "id" \in DOMAIN row
       /\ ListWhere("person", <<Plain(row["id"])>>, EmptyMap) = <<row>>

----------------------------------------------------------------------------
(* Claims about the table without primary keys *)

\* C6: on a table with no primary keys, get_where with a positional value
\* raises NoPrimaryKey; the first flush() of a new Dict inserts its row and
\* succeeds; every later flush() of the Dict raises NoPrimaryKey, sends no
\* statement and leaves the stored rows as they were.
C6_NoPkTable ==
    [][/\ \A i \in Ids :
             (last'.op = "get_where" /\ GetWhere("no_pk", <<Plain(i)>>, EmptyMap))
                => last'.raised = "NoPrimaryKey" /\ rgs' = rgs
       /\ \A d \in DOMAIN dicts :
             (last'.op = "flush" /\ Flush(d) /\ dicts[d].table = "no_pk")
                => IF ~dicts[d].in_db
                   THEN /\ last'.raised = ""
                        /\ rows'["no_pk"] = Append(rows["no_pk"],
                              [c \in column_names("no_pk") |-> DGet(dicts[d].data, c)])
                        /\ dicts'[d].in_db
                   ELSE /\ last'.raised = "NoPrimaryKey"
                        /\ last'.log = << >>
                        /\ rows' = rows]_vars

\* A Dict of no_pk that is in the table was flushed again and NoPrimaryKey
\* was raised
C6_Witness ==
    /\ last.op = "flush"
    /\ ~last.first
    /\ last.raised = "NoPrimaryKey"
    /\ dicts[last.d].table = "no_pk"
    /\ rows["no_pk"] # << >>

\* C7: Dict.delete() on a Dict of a table with no primary keys raises
\* NoPrimaryKey, removes no row and sends no DELETE.
C7_DeleteNoPk ==
    [][\A d \in DOMAIN dicts :
          (last'.op = "delete" /\ Delete(d) /\ dicts[d].table = "no_pk")
             => /\ last'.raised = "NoPrimaryKey"
                /\ last'.log = << >>
                /\ rows' = rows]_vars

----------------------------------------------------------------------------
(* Claims about references *)

\* The 'one' references of a table
OneRefs(t) == {name \in DOMAIN refs[t] : ~Ref(t, name).many}

\* C2: for every 'one' reference of a table, whatever else is declared on its
\* foreign-key column: a read of the reference key that finds no cached row
\* resolves it with one query and caches the result; a read that finds a
\* cached row returns it without a query; assigning the foreign-key column
\* resets the cached value to None.
C2_OneReference ==
    [][\A d \in DOMAIN dicts : \A name \in OneRefs(dicts[d].table) :
          LET self == dicts[d]
              fk == Ref(self.table, name).column1.column
          IN /\ (last'.op = "getitem" /\ GetItem(d, name) /\ DGet(self.data, name) = None
                   /\ last'.raised = "")
                   => /\ Len(last'.log) = 1
                      /\ dicts'[d].data[name] = last'.val
             /\ (last'.op = "getitem" /\ GetItem(d, name) /\ DGet(self.data, name) # None)
                   => /\ last'.log = << >>
                      /\ last'.val = self.data[name]
                      /\ dicts' = dicts
             /\ \A v \in Ids :
                   (last'.op = "setitem" /\ SetItem(d, fk, v) /\ last'.raised = "")
                      => DGet(dicts'[d].data, name) = None]_vars

\* C10: after any sequence of declarations, every reference in a table's refs
\* has column1 on that table, and the table's fks maps column1's name to the
\* reference's name.
C10_Normalized ==
    \A t \in Tables : \A name \in DOMAIN refs[t] :
        /\ Ref(t, name).column1.table = t
        /\ Ref(t, name).column1.column \in DOMAIN fks[t]
        /\ fks[t][Ref(t, name).column1.column] = name

----------------------------------------------------------------------------
(* Claims about ResultsGenerator *)

DerivingOps == {"nocache", "refine", "order_by", "limit", "offset"}

\* The rows the statement of a query gives on the tables as they are
Answer(qv) == SelectRows(rows, qv.table, qv.comps, qv.order_by, qv.limit, qv.offset)

\* C5: nocache, refine, order_by, limit and offset return a new
\* ResultsGenerator over a Select of its own and leave every existing one as
\* it was: its query, cache and flags are the same after the call as before,
\* and what it yields is the answer to the query it was made with, whatever
\* was derived from it or consumed since.
C5_NonDestructive ==
    /\ [](\A r \in DOMAIN rgs :
            /\ QueryOf(r) = rgs[r].made
            /\ rgs[r].executed => rgs[r].result = Answer(rgs[r].made)
            /\ rgs[r].pending = Drop(rgs[r].result, Len(rgs[r].result) - Len(rgs[r].pending)))
    /\ [][last'.op \in DerivingOps =>
            /\ \A r \in DOMAIN rgs : rgs'[r] = rgs[r] /\ QueryOf(r)' = QueryOf(r)
            /\ last'.raised = "" =>
                  /\ Len(rgs') = Len(rgs) + 1
                  /\ last'.val = Len(rgs')
                  /\ \A r \in DOMAIN rgs : rgs'[last'.val].query # rgs[r].query]_vars

\* A generator and one derived from it were both consumed to the end and
\* gave different rows
C5_Witness ==
    \E r \in DOMAIN rgs :
        /\ rgs[r].parent # 0
        /\ rgs[r].completed
        /\ rgs[rgs[r].parent].completed
        /\ rgs[r].result # rgs[rgs[r].parent].result
        /\ rgs[rgs[r].parent].cache # << >>

\* The Dicts a generator makes of the rows of its result
ResultDicts(rg) == [i \in DOMAIN rg.result |-> RowDict(rg.table, rg.result[i])]

\* C8: a caching ResultsGenerator executes its statement at most once; once
\* completed, list(rg) gives the cached rows, which are the result in its
\* order, without executing or fetching.
C8_ExecuteOnce ==
    /\ [](\A r \in DOMAIN rgs :
            ~rgs[r].nocache =>
               /\ rgs[r].nexec = IF rgs[r].executed THEN 1 ELSE 0
               /\ rgs[r].completed => rgs[r].cache = ResultDicts(rgs[r]))
    /\ [][\A r \in DOMAIN rgs :
            (last'.op = "list" /\ RgList(r) /\ rgs[r].completed /\ ~rgs[r].nocache)
               => /\ last'.out = rgs[r].cache
                  /\ last'.fetches = 0
                  /\ rgs'[r] = rgs[r]]_vars

\* A completed caching generator of two rows was listed again
C8_Witness ==
    /\ last.op = "list"
    /\ last.fetches = 0
    /\ Len(last.out) >= 2
    /\ ~rgs[last.rg].nocache
    /\ rgs[last.rg].completed
    /\ rgs[last.rg].nexec = 1

\* C9: rg[i] with i >= 0, after any earlier calls, returns the i-th row of
\* the statement's result, or raises IndexError when the result has i or
\* fewer rows, or NoCache when caching is disabled and the cursor was
\* exhausted; it never returns another row.
C9_Index ==
    [][\A r \in DOMAIN rgs : \A i \in 0 .. MaxRows :
          (last'.op = "getitem" /\ RgGetItem(r, i)) =>
             \/ /\ last'.raised = ""
                /\ i < Len(rgs'[r].result)
                /\ last'.out = <<ResultDicts(rgs'[r])[i + 1]>>
             \/ /\ last'.raised = "IndexError"
                /\ Len(rgs'[r].result) <= i
             \/ /\ last'.raised = "NoCache"
                /\ rgs[r].nocache
                /\ rgs'[r].completed]_vars

----------------------------------------------------------------------------
(* Claims about cursors *)

\* The statements DictORM runs on the connection's shared cursor
SharedCursorOps == {"flush", "delete", "count"}

\* The sequence p is what is left of the sequence s after some of its first
\* elements were taken
IsRestOf(p, s) == Len(p) <= Len(s) /\ p = Drop(s, Len(s) - Len(p))

\* C11: a flush or delete of a Dict or a Table.count, all run on the shared
\* cursor, leaves every ResultsGenerator and what its cursor has yet to return
\* as they were, and what the cursor of an executed generator has yet to
\* return is always the rest of the rows its own statement returned when it
\* was executed.
C11_OwnCursor ==
    /\ [](\A r \in DOMAIN rgs : IsRestOf(Bound(r).pending, rgs[r].result))
    /\ [][last'.op \in SharedCursorOps =>
             \A r \in DOMAIN rgs : Bound(r)' = Bound(r)]_vars

\* A generator in the middle of its result, a row of which a flush has changed
\* in the table since
C11_Witness ==
    /\ last.op = "flush"
    /\ last.raised = ""
    /\ \E r \in DOMAIN rgs :
          /\ rgs[r].executed
          /\ Bound(r).pending # << >>
          /\ Len(Bound(r).pending) < Len(rgs[r].result)
          /\ \E i \in DOMAIN Bound(r).pending :
                \A j \in DOMAIN rows["person"] : rows["person"][j] # Bound(r).pending[i]

----------------------------------------------------------------------------
(* Claims about repeated flushes *)

\* What a flush of d that changes nothing does
Unchanged(d) ==
    /\ last'.raised = ""
    /\ dicts'[d].data = dicts[d].data
    /\ rows' = rows

\* C13 as stated: a flush of a Dict right after a flush of it that raised
\* nothing raises nothing and leaves the Dict's entries and every table's rows
\* as they were.
C13_FlushTwice ==
    [][\A d \in DOMAIN dicts :
          (JustFlushed(d) /\ last'.op = "flush" /\ Flush(d)) => Unchanged(d)]_vars

\* C13 for tables with a primary key: a flush of a Dict of such a table right
\* after a flush of it that raised nothing raises nothing and leaves the Dict's
\* entries and every table's rows as they were.
C13_FlushTwiceKeyed ==
    [][\A d \in DOMAIN dicts :
          (JustFlushed(d) /\ last'.op = "flush" /\ Flush(d) /\ pks(dicts[d].table) # << >>)
             => Unchanged(d)]_vars

\* A Dict of person inserted by a flush and flushed again at once: an UPDATE
\* was sent
C13_Witness ==
    /\ last.op = "flush"
    /\ last.again
    /\ last.log # << >>
    /\ dicts[last.d].table = "person"
    /\ ~dicts[last.d].read
    /\ Len(rows["person"]) > MaxInit

----------------------------------------------------------------------------
(* Claims about the keys of a Dict *)

\* The keys of a Dict that are not declared reference names of its table
OwnKeys(self) == DOMAIN no_refs(self)

----------------------------------------------------------------------------
(* Claims about the registry *)

\* C15: when refresh_tables returns, the registry's keys are the names of the
\* tables the database has, and every entry is a Table object made by this
\* call, with no reference declared on it.
C15_Refreshed ==
    [][last'.op = "refresh_tables" =>
          /\ DOMAIN db'.keys = db.catalog
          /\ \A name \in DOMAIN db'.keys :
                /\ db'.keys[name] > Len(db.objs)
                /\ db'.objs[db'.keys[name]].refs = {}]_vars

----------------------------------------------------------------------------
(* Claims about transactions *)

\* What the claim promises of a transaction whose body raised "body"
RolledBack(body) ==
    /\ db'.conn.rollbacks = db.conn.rollbacks + 1
    /\ db'.conn.commits = db.conn.commits
    /\ last'.raised = body

\* ... and of one whose body completed
Completed(commit) ==
    /\ db'.conn.commits = db.conn.commits + (IF commit THEN 1 ELSE 0)
    /\ db'.conn.rollbacks = db.conn.rollbacks
    /\ last'.raised = ""

\* C16 as stated: a transaction whose body raises anything rolls the
\* connection back once, does not commit and raises the same to the caller;
\* one whose body completes commits once if commit is true and otherwise
\* neither commits nor rolls back.
C16_Transaction ==
    [][\A commit \in BOOLEAN : \A body \in Raisable :
          (last'.op = "transaction" /\ Transaction(commit, body)) =>
             IF body # "" THEN RolledBack(body) ELSE Completed(commit)]_vars

\* C16 for bodies that raise an instance of Exception: the same, for a body
\* that completes or raises an exception derived from Exception.
C16_TransactionException ==
    [][\A commit \in BOOLEAN : \A body \in Raisable :
          (/\ last'.op = "transaction"
           /\ Transaction(commit, body)
           /\ body # "" => IsException(body)) =>
             IF body # "" THEN RolledBack(body) ELSE Completed(commit)]_vars

\* A transaction that raised NoPrimaryKey to its caller, on a connection that
\* transactions have committed and rolled back before
C16_Witness ==
    /\ last.op = "transaction"
    /\ last.raised = "NoPrimaryKey"
    /\ db.conn.commits >= 1
    /\ db.conn.rollbacks >= 3

----------------------------------------------------------------------------
(* Claims about Dict.get *)

\* C17: for every Dict d and key k for which d[k] does not raise,
\* d.get(k, default) returns what d[k] returns and leaves the Dicts as d[k]
\* leaves them, a declared reference with no entry in the Dict included; when
\* d[k] raises KeyError, d.get returns default.
C17_GetAgrees ==
    [][\A d \in DOMAIN dicts : \A key \in GetKeys :
          (last'.op = "get" /\ Get(d, key, MaxId))
             => LET w == DictGetItem(Here, d, key)
                IN IF w.raised = ""
                   THEN last'.val = w.val /\ dicts' = w.dicts
                   ELSE last'.val = MaxId]_vars

----------------------------------------------------------------------------
(* Claims about the arguments of get_where and refine *)

\* How many of the first j arguments are plain values
PlainRank(a, j) == Cardinality({i \in 1 .. j : a[i].plain})

\* The i-th plain value on the i-th primary key, a Comparison as it is
Paired(t, a) ==
    [j \in DOMAIN a |-> IF a[j].plain
                        THEN Eq(Column(t, pks(t)[PlainRank(a, j)]), a[j].value)
                        ELSE a[j].comp]

\* The conditions of the And before the call: none for get_where, those of
\* the refined generator's query for refine
Prior == IF last.op = "refine" THEN QueryOf(last.rg).comps ELSE << >>

\* C18: get_where and refine pair the plain positional values, in order, with
\* the table's primary keys, pass Comparisons through unchanged and put all
\* conditions, keyword ones included, under the one AND; with more plain
\* values than primary keys NoPrimaryKey is raised, no generator is made and
\* nothing is executed.
C18_ArgsPaired ==
    /\ [](last.op \in {"get_where", "refine"} =>
            IF PlainRank(last.a, Len(last.a)) > Len(pks(last.key))
            THEN last.raised = "NoPrimaryKey" /\ last.log = << >>
            ELSE /\ last.raised = ""
                 /\ rgs[last.val].table = last.key
                 /\ LET cs == QueryOf(last.val).comps
                        n == Len(Prior) + Len(last.a)
                    IN /\ Len(cs) = n + Cardinality(DOMAIN last.kw)
                       /\ SubSeq(cs, 1, n) = Prior \o Paired(last.key, last.a)
                       /\ {cs[i] : i \in n + 1 .. Len(cs)}
                             = {Eq(Column(last.key, k), last.kw[k]) : k \in DOMAIN last.kw})
    /\ [][(last'.op \in {"get_where", "refine"} /\ last'.raised # "")
            => <<rows, queries, opers, rgs, dbcurs>>' = <<rows, queries, opers, rgs, dbcurs>>]_vars

\* A refine that paired two plain values with the two primary keys, after a
\* Comparison of the refined query
C18_Witness ==
    /\ last.op = "refine"
    /\ last.raised = ""
    /\ Prior # << >>
    /\ PlainRank(last.a, Len(last.a)) = Len(JoinPks)

----------------------------------------------------------------------------
(* Claims about the text of Comparisons and statements *)

\* The placeholder of a dialect
Placeholder(kind) == IF kind = "sqlite3" THEN "?" ELSE "%s"

\* C19: a Comparison built from Column(table, name) and a literal renders as
\* "table"."column"<kind><placeholder>, with %s on PostgreSQL and ? on SQLite;
\* a null test renders "table"."column"<kind> and no placeholder.
C19_Qualified ==
    last.op = "str" =>
       /\ last.raised = ""
       /\ Text(last.sql)
            = Quoted(last.stmt.column1.table) \o "." \o Quoted(last.stmt.column1.column)
                \o last.stmt.kind
                \o IF null_kind(last.stmt) THEN "" ELSE Placeholder(last.key)

\* The placeholders of a text, in order
Placeholders(sql) == SelectSeq(sql, LAMBDA tk : tk.text = "%s")

\* The literals of a predicate's Comparisons, depth first, null tests left out
RECURSIVE Literals(_)
Literals(x) ==
    IF IsOperator(x)
    THEN IF x.operators_or_comp = << >> THEN << >>
         ELSE Literals(Head(x.operators_or_comp))
                \o Literals([x EXCEPT !.operators_or_comp = Tail(@)])
    ELSE IF x.column2 = Null THEN << >> ELSE <<x.column2>>

\* The null tests of a predicate
RECURSIVE NullLeaves(_)
NullLeaves(x) ==
    IF IsOperator(x)
    THEN IF x.operators_or_comp = << >> THEN 0
         ELSE NullLeaves(Head(x.operators_or_comp))
                + NullLeaves([x EXCEPT !.operators_or_comp = Tail(@)])
    ELSE IF x.column2 = Null THEN 1 ELSE 0

\* C20: in every statement built by Select, Insert, Update or Delete there
\* are as many placeholders as bind values and the k-th value is the one the
\* k-th placeholder stands for; the values are the keyword values in the
\* order their columns are rendered, then the predicate's literals depth
\* first, a null test giving neither a placeholder nor a value.
C20_Placeholders ==
    last.op = "build" =>
       LET q == last.stmt
           ph == Placeholders(last.sql)
       IN /\ Len(ph) = Len(last.binds)
          /\ \A k \in DOMAIN ph : ph[k].value = last.binds[k]
          /\ last.binds = [i \in DOMAIN q.values |-> q.values[i][2]]
                            \o IF q.where = << >> THEN << >> ELSE Literals(q.where[1])
          /\ \A tk \in {last.sql[i] : i \in DOMAIN last.sql} :
                tk.value # None => tk.text = "%s"

\* An Update of two columns whose predicate nests an Operator and holds a
\* null test next to literals
C20_Witness ==
    /\ last.op = "build"
    /\ last.key = "Update"
    /\ Len(last.stmt.values) = 2
    /\ last.stmt.where # << >>
    /\ NullLeaves(last.stmt.where[1]) > 0
    /\ Len(Literals(last.stmt.where[1])) >= 2
    /\ \E i \in DOMAIN last.stmt.where[1].operators_or_comp :
          IsOperator(last.stmt.where[1].operators_or_comp[i])

-----------------------------------------------------------------------------
\* C21: on the sqlite dialect, executing Update(table, ...).where(p)
\* .returning(spec) builds two (sql, values) pairs, an UPDATE without a
\* RETURNING clause that carries the SET values and p's values, then a SELECT
\* on the same table with predicate p and p's values; both are executed in
\* that order and the row is fetched from the second
IsReturning(tok) == tok.text = " RETURNING "

C21_SqliteUpdateReturning ==
    (/\ last.op = "execute_query"
     /\ last.key = "SqliteUpdate"
     /\ last.stmt.where # << >>
     /\ last.stmt.returning # "")
       => /\ Len(last.out) = 2
          /\ SelectSeq(last.out[1].sql, IsReturning) = << >>
          /\ last.out[1].values = Sqlite_values(last.stmt)
          /\ Head(last.out[2].sql).text = "SELECT "
          /\ \E i \in DOMAIN last.out[2].sql : last.out[2].sql[i].text = last.stmt.table
          /\ last.out[2].values = Logical_iter(last.stmt.where[1])
          /\ last.log = last.out
          /\ last.i = 2
-----------------------------------------------------------------------------
\* C22: reading an aggregate reference gives the concatenation, in the
\* order the base 'many' reference yields its rows, of the list each of those
\* rows gives for the nested reference: here, for each row managed by the
\* Dict's id, by id ascending, the rows that have that row's manager, by id
\* ascending, with nothing dropped, reordered or de-duplicated
RECURSIVE Concatenation(_)
Concatenation(lists) ==
    IF lists = << >> THEN << >> ELSE Head(lists) \o Concatenation(Tail(lists))

ManagedBy(v) ==
    IF v = None THEN << >>
    ELSE SortAsc({rows["person"][i] : i \in {j \in DOMAIN rows["person"] :
                                                rows["person"][j].manager_id = v}})

AsDicts(found) == [i \in DOMAIN found |-> DictValue(RowDict("person", found[i]))]

C22_Aggregate ==
    (/\ last.op = "getitem"
     /\ last.key = "subordinates_peers")
       => LET base == ManagedBy(last.kw["id"])
          IN /\ last.raised = ""
             /\ last.out[1].kind = "list"
             /\ last.out[1].items =
                   Concatenation([i \in DOMAIN base |-> AsDicts(ManagedBy(base[i].manager_id))])

\* An aggregate was read of two rows whose lists hold the same rows
C22_Witness ==
    /\ last.op = "getitem"
    /\ last.key = "subordinates_peers"
    /\ Len(last.out[1].items) = 4
    /\ last.out[1].items[1] = last.out[1].items[3]
    /\ last.out[1].items[1] # last.out[1].items[2]
-----------------------------------------------------------------------------
\* C23: in the async engine every flush() call hands the connection exactly
\* one statement, an INSERT when the Dict is not persisted and an UPDATE
\* otherwise; and however the calls, the connection's executions and the
\* resumptions of the flush() coroutines of independent Dicts interleave, a
\* Dict is inserted at most once, and once its flush() has returned it is
\* marked persisted, was inserted exactly once, and holds the row its own
\* INSERT returned
InsertsOf(d) == {i \in DOMAIN last.log : last.log[i].kind = "INSERT" /\ last.log[i].d = d}

C23_AsyncFlush ==
    /\ last.fetches = Len(last.log) + Cardinality({i \in DOMAIN dbcurs : ~dbcurs[i].done})
    /\ \A i \in DOMAIN dbcurs :
          dbcurs[i].kind = IF dicts[dbcurs[i].d].in_db THEN "UPDATE" ELSE "INSERT"
    /\ \A d \in DOMAIN dicts :
          /\ Cardinality(InsertsOf(d)) <= 1
          /\ ~Awaiting(d) /\ (\E i \in DOMAIN last.log : last.log[i].d = d)
               => /\ dicts[d].in_db
                  /\ \E i \in InsertsOf(d) : last.log[i].ret = <<no_refs(dicts[d])>>

\* Every flush() has returned, and one of them resumed after the connection
\* had executed the statement of another
C23_Witness ==
    /\ Len(dicts) = MaxTasks
    /\ dbcurs = << >>
    /\ \A d \in DOMAIN dicts : dicts[d].in_db
    /\ last.op = "resumed"
    /\ last.out # <<no_refs(dicts[last.d])>>
    /\ dicts[1].data["id"] = MaxTasks
-----------------------------------------------------------------------------
\* C24: only DictDB construction and transaction() commit or roll back the
\* connection: the connection is rolled back once when the DictDB is made,
\* and no Table call, flush, delete, get_one, get_where, get_raw, count,
\* ResultsGenerator iteration or refresh_tables changes how often it was
\* committed or rolled back
EngineCalls ==
    {"call", "flush", "delete", "get_one", "get_where", "get_raw", "next", "list",
     "count", "refresh_tables"}

C24_NoCommit ==
    [][/\ last'.op \in EngineCalls \cup {"transaction"}
       /\ last'.op \in EngineCalls => db'.conn = db.conn]_vars

\* The registry was refreshed while rows that were flushed and never
\* committed are in the table, and the connection is as construction left it
C24_Witness ==
    /\ last.op = "refresh_tables"
    /\ rows["person"] # << >>
    /\ db.conn = [commits |-> 0, rollbacks |-> 1]
-----------------------------------------------------------------------------
\* C25: a flush() that returns has first flushed every value the Dict held
\* that is a Dict: each of them is marked persisted, its statement was
\* executed before the Dict's own INSERT or UPDATE, which is the last
\* statement sent, and its row holds its entries unless the Dict itself or
\* another Dict it holds is an object for the same row and was written later
Persisted(c) ==
    /\ dicts'[c].in_db
    /\ \E i \in DOMAIN rows'[dicts'[c].table] :
          \A k \in column_names(dicts'[c].table) :
             rows'[dicts'[c].table][i][k] = DGet(dicts'[c].data, k)

SameRow(c, e) ==
    dicts'[c].table = dicts'[e].table /\ dicts'[c].row_pk = dicts'[e].row_pk

Cascaded(d) ==
    LET held == Children(dicts[d])
    IN /\ Len(last'.log) >= 1 + Len(held)
       /\ last'.log[Len(last'.log)].kind = IF dicts[d].in_db THEN "UPDATE" ELSE "INSERT"
       /\ \A i \in DOMAIN held :
             /\ dicts'[held[i]].in_db
             /\ (\A e \in ({d} \cup {held[j] : j \in DOMAIN held}) \ {held[i]} :
                    ~SameRow(held[i], e))
                  => Persisted(held[i])

-----------------------------------------------------------------------------
\* C26: after a flush() that returned without raising, on a table with
\* primary keys, the table holds exactly one row with the primary-key values
\* of the Dict, and the columns of that row equal the entries of the Dict
C26_FlushedRow ==
    (/\ last.op = "flush"
     /\ last.raised = ""
     /\ pks(dicts[last.d].table) # << >>)
       => LET self == dicts[last.d]
              rs == rows[self.table]
              hits == RowsWithPk(rs, [k \in PkSet(self.table) |-> DGet(self.data, k)])
          IN /\ Cardinality(hits) = 1
             /\ \A i \in hits : \A k \in column_names(self.table) :
                   rs[i][k] = DGet(self.data, k)
-----------------------------------------------------------------------------
\* C27: list(rg) on a caching ResultsGenerator yields every row of the
\* result, from the first, in query order, whatever was consumed before
C27_IterationAll ==
    (/\ last.op = "list"
     /\ ~rgs[last.rg].nocache)
       => last.out = ResultDicts(rgs[last.rg])

\* C27, amended: list(rg) on a caching ResultsGenerator that is completed
\* yields every row of the result in query order; on one that is not, it
\* yields the rows that next() and indexing have not fetched yet, in query
\* order, and leaves the generator completed with every row cached
C27_IterationRest ==
    [][(/\ last'.op = "list"
        /\ ~rgs[last'.rg].nocache)
          => LET r == last'.rg
                 full == ResultDicts(rgs'[r])
             IN /\ last'.out = IF rgs[r].completed THEN full
                                ELSE Drop(full, Len(rgs[r].cache))
                /\ rgs'[r].completed
                /\ rgs'[r].cache = full]_vars

\* A caching generator was listed after a part of its rows was fetched
C27_Witness ==
    /\ last.op = "list"
    /\ ~rgs[last.rg].nocache
    /\ last.out # << >>
    /\ Len(last.out) < Len(rgs[last.rg].result)
-----------------------------------------------------------------------------
\* C28: a __setitem__ that raises CannotUpdateColumn leaves every Dict as it
\* was before the call, the cached reference values included
C28_SetItemRaised ==
    [][(/\ last'.op = "setitem"
        /\ last'.raised = "CannotUpdateColumn")
          => dicts' = dicts]_vars
-----------------------------------------------------------------------------
\* C29: flush() comes to an end for every Dict, whatever Dicts it holds: it
\* never descends into held Dicts until the recursion limit stops it
C29_FlushTerminates ==
    last.op = "flush" => last.raised # "RecursionError"
-----------------------------------------------------------------------------
\* C30: constructing a PgPyTable with auto_reference comes to an end for every
\* foreign-key graph of the schema: it never nests constructions until the
\* recursion limit stops it
C30_ConstructTerminates ==
    (last.op = "PgPyTable" /\ last.first) => last.raised # "RecursionError"

\* The graphs where it does come to an end: those where no table other than
\* the one constructed, reached from it, is on a cycle that avoids it
RecursionOnlyOnCycles ==
    (last.op = "PgPyTable" /\ last.first)
        => (last.raised = "RecursionError"
              <=> LET fkeys == {e \in db.constraints : e[1] # last.d}
                      RECURSIVE reach(_, _)
                      reach(from, n) ==
                          IF n = 0 THEN from
                          ELSE reach(from \cup {e[2] : e \in {x \in fkeys : x[1] \in from}},
                                     n - 1)
                      firsts == {e[2] : e \in {x \in db.constraints : x[1] = last.d}}
                                   \ {last.d}
                  IN \E r \in reach(firsts, MaxSchema) :
                        r \in reach({e[2] : e \in {x \in fkeys : x[1] = r}}, MaxSchema))
====
